---------------------------- MODULE Spec2Model ----------------------------
(***************************************************************************)
(* Model of the reasonance session server: the session registry            *)
(* (SessionManager), the Session entity, the broadcast hub (per-session    *)
(* and global asyncio queues), the turn submission handlers of api.py and  *)
(* the inactivity sweep.                                                   *)
(*                                                                         *)
(* The server runs on one asyncio event loop.  A handler or task runs      *)
(* without interruption until it awaits something that really suspends:    *)
(* the call to the reasoning provider, asyncio.sleep, queue.get on an      *)
(* empty queue.  queue.put on an unbounded asyncio.Queue never suspends.   *)
(* Each action below is one such uninterrupted run.                        *)
(***************************************************************************)
EXTENDS Integers, Sequences, FiniteSets, TLC

\* ------------------------------------------------------------------ bounds
MaxSessions == 2
MaxTurns == 2
MaxQueues == 2
MaxQueueLen == 2
MaxClients == 2
MaxTicks == 3
MaxEdges == 2
MaxAnchors == 2
MaxTimeouts == 2

\* ------------------------------------------------------- program constants
INACTIVE_SESSION_TIMEOUT == 5
CLEANUP_INTERVAL == 60

Names == {"alice", "bob"}
Speakers == {"alice"}
Messages == {"typed"}
Placeholder == "[Transcribing...]"
TranscriptionFailed == "[Transcription failed]"
EmptyTranscript == "[Empty transcript]"
\* what the transcription provider yields for one upload
TranscriptionOutcomes == {"spoken", TranscriptionFailed, EmptyTranscript}
\* the events published directly on a topic
PublishData == {[type |-> "anchor"]}
ArgumentTypes == {"claim", "support", "counter", "response"}

\* AnchorData: the body of POST /session/{session_id}/anchors
\* (position >= 0, length > 0, turnId >= 0)
AnchorData(position, length, word, turnId, userId) ==
    [position |-> position, length |-> length, word |-> word, turnId |-> turnId,
     userId |-> userId]

\* one anchor, the same selection with another word, and the four anchors
\* that differ from the first in exactly one field of the selection
AnchorInputs ==
    {AnchorData(0, 1, "w1", 1, "alice"), AnchorData(0, 1, "w2", 1, "alice"),
     AnchorData(1, 1, "w1", 1, "alice"), AnchorData(0, 2, "w1", 1, "alice"),
     AnchorData(0, 1, "w1", 2, "alice"), AnchorData(0, 1, "w1", 1, "bob")}

\* ----------------------------------------------------- classifier inputs
\* confidence is a float in the program; here it is counted in units of
\* 1/10000 so that the products with 0.8 are exact
\* self.confidence_threshold = 0.5
CONFIDENCE_THRESHOLD == 5000
\* message[:100] in _create_fallback_node and in the default of the summary
SummaryLimit == 100

\* a summary text: a literal, or the first n characters of a message
\* followed by a suffix
Literal(text) == [kind |-> "literal", of |-> text, len |-> 0, suffix |-> ""]
Truncate(message, n, suffix) ==
    [kind |-> "prefix", of |-> message, len |-> n, suffix |-> suffix]

\* one element of a targets list: a turn id, or a value that cannot be
\* looked up in a dict (a nested list or object)
Target(id) == [id |-> id, hashable |-> TRUE]
Unhashable == [id |-> 0, hashable |-> FALSE]

\* a JSON object of the provider: the keys it has and their values
Analysis(keys, type, targets_is_list, targets, confidence_numeric, confidence) ==
    [keys |-> keys, type |-> type, summary |-> Literal("summary"),
     targets_is_list |-> targets_is_list, targets |-> targets,
     confidence_numeric |-> confidence_numeric, confidence |-> confidence]

AllKeys == {"type", "summary", "targets", "confidence"}

\* the dict call_claude returns from its two except clauses
DefaultAnalysis(text) ==
    [keys |-> {"type", "targets", "summary"}, type |-> "claim",
     summary |-> Literal(text), targets_is_list |-> TRUE, targets |-> <<>>,
     confidence_numeric |-> TRUE, confidence |-> 0]

\* what the provider does for one call: the request raises, the text is not
\* JSON, the JSON is not an object, or it is an object
Outcome(kind, analysis) == [kind |-> kind, analysis |-> analysis]
ApiError == Outcome("api_error", DefaultAnalysis(""))
InvalidJson == Outcome("invalid_json", DefaultAnalysis(""))
NotADict == Outcome("not_a_dict", DefaultAnalysis(""))
PlainClaim ==
    Outcome("dict", Analysis(AllKeys, "claim", TRUE, <<>>, TRUE, 9000))
CounterTo(targets) ==
    Outcome("dict", Analysis(AllKeys, "counter", TRUE, targets, TRUE, 8500))

ClaudeOutcomes ==
    {ApiError, InvalidJson, NotADict, PlainClaim,
     CounterTo(<<Target(1)>>),
     CounterTo(<<Target(1), Unhashable>>),
     CounterTo(<<Target(1), Target(3)>>),
     \* low confidence
     Outcome("dict", Analysis(AllKeys, "support", TRUE, <<Target(1)>>, TRUE, 3000)),
     \* targets is not a list
     Outcome("dict", Analysis(AllKeys, "response", FALSE, <<>>, TRUE, 8500)),
     \* the type is not one of the four
     Outcome("dict", Analysis(AllKeys, "rebuttal", TRUE, <<Target(1)>>, TRUE, 8500)),
     \* no type, and targets is not a list
     Outcome("dict", Analysis({"targets", "confidence"}, "", FALSE, <<>>, TRUE, 8500)),
     \* the confidence is not a number
     Outcome("dict", Analysis(AllKeys, "claim", TRUE, <<>>, FALSE, 0))}

VARIABLES
    sessions,         \* every Session object constructed so far, by session id
    active_sessions,  \* SessionManager.active_sessions: live ids, dict order
    session_queues,   \* SessionManager.session_queues: id -> list of queues
    global_queues,    \* SessionManager.global_queues: list of queues
    queues,           \* every asyncio.Queue created so far with its consumer
    tasks,            \* coroutines in flight (scheduled or suspended)
    archives,         \* the archives directory: id -> snapshot written
    disk_fault,       \* id -> how Session.archive() fails for it, if it does
    now,              \* datetime.now(), in seconds
    cleanup_task,     \* SessionManager.cleanup_task and its wake-up time
    last_publish,     \* the most recent direct publish call and its puts
    last_analysis     \* the most recent call of analyze_message and its result

vars == <<sessions, active_sessions, session_queues, global_queues, queues,
          tasks, archives, disk_fault, now, cleanup_task, last_publish,
          last_analysis>>

\* ----------------------------------------------------------------- helpers
Range(s) == {s[i] : i \in 1..Len(s)}

RECURSIVE SeqRemove(_, _)
\* list.remove(x): drops the first occurrence
SeqRemove(s, x) ==
    IF s = <<>> THEN <<>>
    ELSE IF Head(s) = x THEN Tail(s)
    ELSE <<Head(s)>> \o SeqRemove(Tail(s), x)

Max(a, b) == IF a >= b THEN a ELSE b

SessionTopic(sid) == [kind |-> "session", sid |-> sid]
GlobalTopic == [kind |-> "global", sid |-> 0]

NoPublish == [topic |-> GlobalTopic, data |-> [type |-> "none"], visited |-> <<>>,
              flip |-> FALSE]

\* ------------------------------------------------------------------ events
TranscriptEvent(t) ==
    [type |-> "transcript", turn_id |-> t.turn_id, speaker |-> t.speaker,
     transcript |-> t.transcript]

ArgumentUpdate(node) ==
    [type |-> "argument_update", latest_node |-> node.turn_id,
     node_type |-> node.type]

ParticipantUpdate(session) ==
    [type |-> "participant_update", participants |-> session.participants]

AnchorEvent(anchor) == [type |-> "anchor", data |-> anchor]

SessionRemoved(sid) == [type |-> "session_removed", session_id |-> sid]

\* the close sentinel the consumer loops test for (message is None)
CloseSentinel == [type |-> "None"]

\* SessionManager.get_active_sessions_info
ActiveSessionsInfo(act, ss) ==
    [i \in 1..Len(act) |->
        [session_id |-> act[i],
         participant_count |-> Cardinality(ss[act[i]].participants),
         transcript_count |-> Len(ss[act[i]].transcripts)]]

SessionsUpdate(act, ss) ==
    [type |-> "sessions_update", active |-> ActiveSessionsInfo(act, ss)]

\* --------------------------------------------------------------- the hub
RECURSIVE PutAllFront(_, _, _)
\* the puts made at the head of each queue instead of its tail
PutAllFront(qs, list, message) ==
    IF list = <<>> THEN qs
    ELSE PutAllFront([qs EXCEPT ![Head(list)].items = <<message>> \o @],
                     Tail(list), message)

RECURSIVE PutAll(_, _, _)
\* for queue in list: await queue.put(message)
PutAll(qs, list, message) ==
    IF list = <<>> THEN qs
    ELSE PutAll([qs EXCEPT ![Head(list)].items = Append(@, message)],
                Tail(list), message)

\* the queues a publish on a session topic visits, in order
SessionSubscribers(sq, sid) ==
    IF sid \in DOMAIN sq THEN sq[sid] ELSE <<>>

\* a publish that reaches no queue
BroadcastToNobody(qs, sq, sid, data) == qs

\* SessionManager.broadcast_to_session
BroadcastToSession(qs, sq, sid, data) ==
    PutAll(qs, SessionSubscribers(sq, sid), data)

\* a publish put on every queue there is
BroadcastToAllQueues(qs, gq, data) == PutAll(qs, [i \in 1..Len(qs) |-> i], data)

\* SessionManager.broadcast_global
BroadcastGlobal(qs, gq, data) == PutAll(qs, gq, data)

\* SessionManager.broadcast_to_home: home_queues is never created, so the
\* hasattr test fails and nothing is put anywhere
BroadcastToHome(qs, data) == qs

\* room left on every queue a publish would reach (model bound only)
Room(list, n) == \A i \in 1..Len(list) : Len(queues[list[i]].items) + n <= MaxQueueLen


\* ---------------------------------------------------------------- maps
EmptyMap == [k \in {} |-> {}]

\* d[k] = v on a dict
MapPut(d, k, v) == [x \in DOMAIN d \cup {k} |-> IF x = k THEN v ELSE d[x]]

\* del d[k]
MapDel(d, k) == [x \in DOMAIN d \ {k} |-> d[x]]

\* ------------------------------------------------------------- Session
\* Session.__init__
NewSession(sid, t) ==
    [session_id |-> sid,
     transcripts |-> <<>>,
     created_at |-> t,
     last_activity |-> t,
     last_turn_id |-> 0,
     participants |-> {},
     connected_clients |-> 0,
     anchors |-> <<>>,
     nodes |-> EmptyMap,
     edges |-> <<>>]

\* the predicate without the test of connected_clients
IsInactiveByParticipants(session, t) ==
    /\ Cardinality(session.participants) = 0
    /\ t - session.last_activity > INACTIVE_SESSION_TIMEOUT * 60

\* Session.is_inactive
IsInactive(session, t) ==
    /\ session.connected_clients <= 0
    /\ Cardinality(session.participants) = 0
    /\ t - session.last_activity > INACTIVE_SESSION_TIMEOUT * 60

\* a participant already in the set is not counted again
AddParticipantOnce(session, name, t) ==
    [session EXCEPT !.participants = @ \cup {name},
                    !.connected_clients = IF name \in session.participants
                                          THEN @ ELSE @ + 1,
                    !.last_activity = t]

\* Session.add_participant (with update_activity)
AddParticipant(session, name, t) ==
    [session EXCEPT !.participants = @ \cup {name},
                    !.connected_clients = @ + 1,
                    !.last_activity = t]

\* the count decremented without the floor of max(0, ...)
RemoveParticipantUnfloored(session, name, t) ==
    [session EXCEPT !.participants = @ \ {name},
                    !.connected_clients = @ - 1,
                    !.last_activity = t]

\* Session.remove_participant (with update_activity)
RemoveParticipant(session, name, t) ==
    [session EXCEPT !.participants = @ \ {name},
                    !.connected_clients = Max(0, @ - 1),
                    !.last_activity = t]

\* Session.add_anchor: no field of anchor_data is compared with the turns
AddAnchor(session, anchor_data, t) ==
    LET new_anchor == [position |-> anchor_data.position,
                       length |-> anchor_data.length,
                       word |-> anchor_data.word,
                       turnId |-> anchor_data.turnId,
                       userId |-> anchor_data.userId,
                       timestamp |-> t] IN
    [session |-> [session EXCEPT !.anchors = Append(@, new_anchor)],
     anchor |-> new_anchor]

\* the test of the loop of Session.remove_anchor
AnchorMatches(anchor, turn_id, position, length, user_id) ==
    /\ anchor.turnId = turn_id
    /\ anchor.position = position
    /\ anchor.length = length
    /\ anchor.userId = user_id

\* list.pop(i)
SeqPop(s, i) == SubSeq(s, 1, i - 1) \o SubSeq(s, i + 1, Len(s))

\* what remove_anchor returns when no anchor matches (None)
NoAnchor == [found |-> FALSE, removed |-> AnchorData(0, 0, "", 0, "")]

RECURSIVE RemoveAnchorEvery(_, _, _, _, _)
\* every matching anchor dropped, the first one returned
RemoveAnchorEvery(anchors, turn_id, position, length, user_id) ==
    IF anchors = <<>> THEN [anchors |-> <<>>, result |-> NoAnchor]
    ELSE LET rest == RemoveAnchorEvery(Tail(anchors), turn_id, position, length,
                                       user_id) IN
         IF AnchorMatches(Head(anchors), turn_id, position, length, user_id)
         THEN [anchors |-> rest.anchors,
               result |-> [found |-> TRUE, removed |-> Head(anchors)]]
         ELSE [anchors |-> <<Head(anchors)>> \o rest.anchors, result |-> rest.result]

RECURSIVE RemoveAnchorFrom(_, _, _, _, _, _)
\* for i, anchor in enumerate(self.anchors), from index i on
RemoveAnchorFrom(anchors, i, turn_id, position, length, user_id) ==
    IF i > Len(anchors) THEN [anchors |-> anchors, result |-> NoAnchor]
    ELSE IF AnchorMatches(anchors[i], turn_id, position, length, user_id)
    THEN [anchors |-> SeqPop(anchors, i),
          result |-> [found |-> TRUE, removed |-> anchors[i]]]
    ELSE RemoveAnchorFrom(anchors, i + 1, turn_id, position, length, user_id)

\* Session.remove_anchor: the list afterwards and the value returned
RemoveAnchor(anchors, turn_id, position, length, user_id) ==
    RemoveAnchorFrom(anchors, 1, turn_id, position, length, user_id)

\* ArgumentMapper.get_graph
GetGraph(session) == [nodes |-> session.nodes, edges |-> session.edges]

\* the JSON document Session.archive dumps
Snapshot(session, t) ==
    [transcripts |-> session.transcripts,
     anchors |-> session.anchors,
     argument_graph |-> GetGraph(session),
     metadata |-> [created_at |-> session.created_at,
                   archived_at |-> t,
                   participants |-> session.participants,
                   session_id |-> session.session_id,
                   transcript_count |-> Len(session.transcripts),
                   participant_count |-> Cardinality(session.participants)]]

\* Session.archive: the outcome of one call.  With fault "open" the archive
\* file cannot be opened and nothing is written; with fault "move" the
\* snapshot is written and moving the recordings directory raises.
Archive(arch, session, fault, t) ==
    [archives |-> IF fault = "open" THEN arch
                  ELSE MapPut(arch, session.session_id, Snapshot(session, t)),
     raised |-> fault # "none"]

\* ------------------------------------------------------ SessionManager
\* the removal with the exception of archive() swallowed
RemoveSessionAnyway(reg, ss, sid, faults, t) ==
    IF sid \notin Range(reg.active) THEN [reg EXCEPT !.raised = FALSE]
    ELSE LET a == Archive(reg.archives, ss[sid], faults[sid], t) IN
         [active |-> SeqRemove(reg.active, sid),
          sq |-> MapDel(reg.sq, sid),
          archives |-> a.archives,
          qs |-> reg.qs,
          raised |-> FALSE]

\* the removal without the membership test: the lookup of an id that is
\* not live raises KeyError
RemoveSessionUnguarded(reg, ss, sid, faults, t) ==
    IF sid \notin Range(reg.active) THEN [reg EXCEPT !.raised = TRUE]
    ELSE LET a == Archive(reg.archives, ss[sid], faults[sid], t) IN
         IF a.raised
         THEN [reg EXCEPT !.archives = a.archives, !.raised = TRUE]
         ELSE [active |-> SeqRemove(reg.active, sid),
               sq |-> MapDel(reg.sq, sid),
               archives |-> a.archives,
               qs |-> reg.qs,
               raised |-> FALSE]

\* SessionManager.remove_session on the registry reg = [active, sq, archives]:
\* archive, then delete from both dicts; an exception of archive() propagates
\* before anything is deleted
RemoveSession(reg, ss, sid, faults, t) ==
    IF sid \notin Range(reg.active) THEN [reg EXCEPT !.raised = FALSE]
    ELSE LET a == Archive(reg.archives, ss[sid], faults[sid], t) IN
         IF a.raised
         THEN [reg EXCEPT !.archives = a.archives, !.raised = TRUE]
         ELSE [active |-> SeqRemove(reg.active, sid),
               sq |-> MapDel(reg.sq, sid),
               archives |-> a.archives,
               qs |-> reg.qs,
               raised |-> FALSE]

RECURSIVE CleanupScan(_, _, _, _, _)
\* the for loop of cleanup_inactive_sessions over list(active_sessions.items());
\* the try encloses the whole loop, so an exception ends the scan
CleanupScan(reg, ss, list, faults, t) ==
    IF list = <<>> THEN reg
    ELSE IF IsInactive(ss[Head(list)], t)
         THEN LET r == RemoveSession(reg, ss, Head(list), faults, t) IN
              IF r.raised THEN r
              ELSE CleanupScan(
                       [r EXCEPT !.qs = BroadcastToHome(@, SessionRemoved(Head(list)))],
                       ss, Tail(list), faults, t)
         ELSE CleanupScan(reg, ss, Tail(list), faults, t)

Registry ==
    [active |-> active_sessions, sq |-> session_queues, archives |-> archives,
     qs |-> queues, raised |-> FALSE]

\* the new queue inserted at the front of the list
AddClientQueueFirst(sq, sid, q) ==
    MapPut(sq, sid, <<q>> \o SessionSubscribers(sq, sid))

\* SessionManager.add_client_queue
AddClientQueue(sq, sid, q) ==
    MapPut(sq, sid, Append(SessionSubscribers(sq, sid), q))

\* the head of the session's list dropped, whichever queue was named
RemoveClientQueueHead(sq, sid, q) ==
    IF sid \in DOMAIN sq /\ sq[sid] # <<>> THEN [sq EXCEPT ![sid] = Tail(@)] ELSE sq

\* SessionManager.remove_client_queue
RemoveClientQueue(sq, sid, q) ==
    IF sid \in DOMAIN sq THEN [sq EXCEPT ![sid] = SeqRemove(@, q)] ELSE sq

\* what get_session_data returns when it returns nothing (None)
NoData == [type |-> "None"]

\* SessionManager.get_session_data: only the live map is looked at, and the
\* graph is read from the attributes argument_nodes and argument_edges of
\* the session; reading an attribute the object does not have raises
GetSessionData(act, ss, sid) ==
    IF sid \in Range(act)
    THEN IF {"argument_nodes", "argument_edges"} \subseteq DOMAIN ss[sid]
         THEN [raised |-> FALSE,
               data |-> [transcripts |-> ss[sid].transcripts,
                         anchors |-> ss[sid].anchors,
                         argument_graph |-> [nodes |-> ss[sid].argument_nodes,
                                             edges |-> ss[sid].argument_edges],
                         metadata |-> [created_at |-> ss[sid].created_at,
                                       participants |-> ss[sid].participants,
                                       session_id |-> ss[sid].session_id]]]
         ELSE [raised |-> TRUE, data |-> NoData]
    ELSE [raised |-> FALSE, data |-> NoData]

\* SessionManager.add_global_queue
AddGlobalQueue(gq, q) == Append(gq, q)

\* SessionManager.remove_global_queue
RemoveGlobalQueue(gq, q) == SeqRemove(gq, q)

\* ------------------------------------------------------ argument graph
\* analysis.get(key, default): the value of a key the object has
Has(analysis, key) == key \in analysis.keys

\* confidence *= 0.8
Penalty(confidence) == (confidence * 8) \div 10

\* call_claude: the dict it returns, or the value json.loads returned
CallClaude(outcome) ==
    CASE outcome.kind = "api_error" ->
            [is_dict |-> TRUE, analysis |-> DefaultAnalysis("Failed to analyze message")]
      [] outcome.kind = "invalid_json" ->
            [is_dict |-> TRUE,
             analysis |-> DefaultAnalysis("Failed to parse Claude's response")]
      [] outcome.kind = "not_a_dict" ->
            [is_dict |-> FALSE, analysis |-> outcome.analysis]
      [] OTHER -> [is_dict |-> TRUE, analysis |-> outcome.analysis]

\* the validation with the type left as the provider gave it
ValidateAnalysisKeepType(analysis) ==
    IF Has(analysis, "confidence") /\ ~analysis.confidence_numeric
    THEN [raised |-> TRUE, analysis |-> analysis, confidence |-> 0]
    ELSE LET c0 == IF Has(analysis, "confidence") THEN analysis.confidence ELSE 0
             bad_targets == Has(analysis, "targets") /\ ~analysis.targets_is_list
             a1 == IF bad_targets
                   THEN [analysis EXCEPT !.targets_is_list = TRUE, !.targets = <<>>]
                   ELSE analysis
             c1 == IF bad_targets THEN Penalty(c0) ELSE c0 IN
         [raised |-> FALSE, analysis |-> a1, confidence |-> c1]

\* the validation with the targets left as the provider gave them
ValidateAnalysisKeepTargets(analysis) ==
    IF Has(analysis, "confidence") /\ ~analysis.confidence_numeric
    THEN [raised |-> TRUE, analysis |-> analysis, confidence |-> 0]
    ELSE LET c0 == IF Has(analysis, "confidence") THEN analysis.confidence ELSE 0
             bad_type == ~Has(analysis, "type") \/ analysis.type \notin ArgumentTypes
             a2 == IF bad_type
                   THEN [analysis EXCEPT !.type = "claim", !.keys = @ \cup {"type"}]
                   ELSE analysis
             c2 == IF bad_type THEN Penalty(c0) ELSE c0 IN
         [raised |-> FALSE, analysis |-> a2, confidence |-> c2]

\* ArgumentMapper._validate_analysis: float() of a confidence that is not a
\* number raises; a targets value that is not a list is replaced by [] and
\* a type that is missing or unknown by "claim", each with confidence *= 0.8
ValidateAnalysis(analysis) ==
    IF Has(analysis, "confidence") /\ ~analysis.confidence_numeric
    THEN [raised |-> TRUE, analysis |-> analysis, confidence |-> 0]
    ELSE LET c0 == IF Has(analysis, "confidence") THEN analysis.confidence ELSE 0
             bad_targets == Has(analysis, "targets") /\ ~analysis.targets_is_list
             a1 == IF bad_targets
                   THEN [analysis EXCEPT !.targets_is_list = TRUE, !.targets = <<>>]
                   ELSE analysis
             c1 == IF bad_targets THEN Penalty(c0) ELSE c0
             bad_type == ~Has(a1, "type") \/ a1.type \notin ArgumentTypes
             a2 == IF bad_type
                   THEN [a1 EXCEPT !.type = "claim", !.keys = @ \cup {"type"}]
                   ELSE a1
             c2 == IF bad_type THEN Penalty(c1) ELSE c1 IN
         [raised |-> FALSE, analysis |-> a2, confidence |-> c2]

RECURSIVE AddEdgesUnchecked(_, _, _, _)
\* the for loop without the test that the target is a node
AddEdgesUnchecked(edges, nodes, node, targets) ==
    IF targets = <<>> THEN [edges |-> edges, raised |-> FALSE]
    ELSE IF ~Head(targets).hashable THEN [edges |-> edges, raised |-> TRUE]
    ELSE AddEdgesUnchecked(Append(edges, [source_id |-> node.turn_id,
                                          target_id |-> Head(targets).id,
                                          type |-> node.type]),
                           nodes, node, Tail(targets))

RECURSIVE AddEdgesAfter(_, _, _, _)
\* the loop run on a list of edges prepared beforehand
AddEdgesAfter(edges, nodes, node, targets) ==
    IF targets = <<>> THEN [edges |-> edges, raised |-> FALSE]
    ELSE IF ~Head(targets).hashable THEN [edges |-> edges, raised |-> TRUE]
    ELSE AddEdgesAfter(IF Head(targets).id \in DOMAIN nodes
                       THEN Append(edges, [source_id |-> node.turn_id,
                                           target_id |-> Head(targets).id,
                                           type |-> node.type])
                       ELSE edges,
                       nodes, node, Tail(targets))

\* the edges of the node dropped before its new edges are appended
AddEdgesReplacing(edges, nodes, node, targets) ==
    AddEdgesAfter(SelectSeq(edges, LAMBDA e : e.source_id # node.turn_id),
                  nodes, node, targets)

RECURSIVE AddEdges(_, _, _, _)
\* the for loop of _add_node_and_edges; "target_id in self.nodes" raises
\* TypeError for a target that cannot be hashed, with the edges appended so
\* far left in the list
AddEdges(edges, nodes, node, targets) ==
    IF targets = <<>> THEN [edges |-> edges, raised |-> FALSE]
    ELSE IF ~Head(targets).hashable THEN [edges |-> edges, raised |-> TRUE]
    ELSE AddEdges(IF Head(targets).id \in DOMAIN nodes
                  THEN Append(edges, [source_id |-> node.turn_id,
                                      target_id |-> Head(targets).id,
                                      type |-> node.type])
                  ELSE edges,
                  nodes, node, Tail(targets))

\* ArgumentMapper._add_node_and_edges
AddNodeAndEdges(session, node, targets) ==
    LET nodes == MapPut(session.nodes, node.turn_id, node)
        added == AddEdges(session.edges, nodes, node, targets) IN
    [session |-> [session EXCEPT !.nodes = nodes, !.edges = added.edges],
     raised |-> added.raised]

\* the fallback node
FallbackNode(turn_id, message, speaker) ==
    [turn_id |-> turn_id, type |-> "claim",
     summary |-> Truncate(message, SummaryLimit, "..."), speaker |-> speaker]

\* ArgumentMapper._create_fallback_node
CreateFallbackNode(session, turn_id, message, speaker) ==
    LET node == FallbackNode(turn_id, message, speaker) IN
    [session |-> [session EXCEPT !.nodes = MapPut(@, turn_id, node)],
     node |-> node, confidence |-> 0, raised |-> FALSE]

\* the try block of ArgumentMapper.analyze_message under one outcome of the
\* provider: what it returns, or the state in which it raised
TryAnalyzeMessage(session, turn_id, message, speaker, outcome) ==
    LET called == CallClaude(outcome)
        failed == [session |-> session,
                   node |-> FallbackNode(turn_id, message, speaker),
                   confidence |-> 0, raised |-> TRUE] IN
    IF ~called.is_dict THEN failed
    ELSE LET v == ValidateAnalysis(called.analysis) IN
         IF v.raised THEN failed
         ELSE LET node == [turn_id |-> turn_id,
                           type |-> IF Has(v.analysis, "type")
                                    THEN v.analysis.type ELSE "claim",
                           summary |-> IF Has(v.analysis, "summary")
                                       THEN v.analysis.summary
                                       ELSE Truncate(message, SummaryLimit, "..."),
                           speaker |-> speaker]
                  added == AddNodeAndEdges(session, node,
                                           IF Has(v.analysis, "targets")
                                           THEN v.analysis.targets ELSE <<>>) IN
              [session |-> added.session, node |-> node,
               confidence |-> v.confidence, raised |-> added.raised]

\* analyze_message without its except clause
AnalyzeMessageUncaught(session, turn_id, message, speaker, outcome) ==
    TryAnalyzeMessage(session, turn_id, message, speaker, outcome)

\* ArgumentMapper.analyze_message (and Session.analyze_message, which passes
\* its result on): the except clause replaces a raise by the fallback node
AnalyzeMessage(session, turn_id, message, speaker, outcome) ==
    LET tried == TryAnalyzeMessage(session, turn_id, message, speaker, outcome) IN
    IF tried.raised
    THEN CreateFallbackNode(tried.session, turn_id, message, speaker)
    ELSE tried

\* the arguments of one call of analyze_message
Call(sid, turn_id, message, speaker, outcome) ==
    [sid |-> sid, turn_id |-> turn_id, message |-> message, speaker |-> speaker,
     outcome |-> outcome]

\* the record of one call: its arguments and what it returned
Analysed(call, result) ==
    [call |-> call, node |-> result.node, confidence |-> result.confidence,
     raised |-> result.raised]

NoAnalysis ==
    [call |-> Call(0, 0, "", "", ApiError), node |-> FallbackNode(0, "", ""),
     confidence |-> 0, raised |-> FALSE]

\* ------------------------------------------------------ the sweep task
\* SessionManager.cleanup_task is None and no sweep task exists
NoCleanupTask ==
    [running |-> FALSE, wake |-> 0, alive |-> 0, cancel |-> FALSE,
     stopping |-> FALSE]

\* a task created whether or not one is already there
CreateCleanupTaskAgain(ct, t) ==
    [ct EXCEPT !.running = TRUE, !.wake = t, !.alive = @ + 1]

\* start_cleanup_task: a task is created only when cleanup_task is None
CreateCleanupTask(ct, t) ==
    IF ct.running THEN ct
    ELSE [ct EXCEPT !.running = TRUE, !.wake = t, !.alive = @ + 1]

\* stop_cleanup_task up to 'await self.cleanup_task': nothing when
\* cleanup_task is None, otherwise the task is cancelled and awaited
CancelCleanupTask(ct) ==
    IF ct.running THEN [ct EXCEPT !.cancel = ct.alive > 0, !.stopping = TRUE]
    ELSE ct

\* --------------------------------------------------------------- Init
Init ==
    /\ sessions = <<>>
    /\ active_sessions = <<>>
    /\ session_queues = EmptyMap
    /\ global_queues = <<>>
    /\ queues = <<>>
    /\ tasks = {}
    /\ archives = EmptyMap
    /\ disk_fault = [s \in 1..MaxSessions |-> "none"]
    /\ now = 0
    /\ cleanup_task = NoCleanupTask
    /\ last_publish = NoPublish
    /\ last_analysis = NoAnalysis


\* the server once the lifespan startup has run start_cleanup_task
InitServing ==
    /\ sessions = <<>>
    /\ active_sessions = <<>>
    /\ session_queues = EmptyMap
    /\ global_queues = <<>>
    /\ queues = <<>>
    /\ tasks = {}
    /\ archives = EmptyMap
    /\ disk_fault = [s \in 1..MaxSessions |-> "none"]
    /\ now = 0
    /\ cleanup_task = CreateCleanupTask(NoCleanupTask, 0)
    /\ last_publish = NoPublish
    /\ last_analysis = NoAnalysis

\* ------------------------------------------------------ session lifecycle
\* POST /start-session: create_session, then add_participant
CreateSession(name) ==
    /\ Len(sessions) < MaxSessions
    /\ LET sid == Len(sessions) + 1 IN
        /\ sessions' = Append(sessions, AddParticipant(NewSession(sid, now), name, now))
        /\ active_sessions' = Append(active_sessions, sid)
        /\ session_queues' = MapPut(session_queues, sid, <<>>)
    /\ UNCHANGED <<global_queues, queues, tasks, archives, disk_fault, now,
                   cleanup_task, last_publish,
                   last_analysis>>

\* POST /join-session/{session_id}
JoinSession(sid, name) ==
    /\ sid \in Range(active_sessions)
    /\ sessions[sid].connected_clients < MaxClients
    /\ Room(SessionSubscribers(session_queues, sid), 1)
    /\ Room(global_queues, 1)
    /\ LET ss == [sessions EXCEPT ![sid] = AddParticipant(@, name, now)] IN
        /\ sessions' = ss
        /\ queues' = BroadcastGlobal(
                        BroadcastToSession(queues, session_queues, sid,
                                           ParticipantUpdate(ss[sid])),
                        global_queues, SessionsUpdate(active_sessions, ss))
    /\ UNCHANGED <<active_sessions, session_queues, global_queues, tasks, archives,
                   disk_fault, now, cleanup_task, last_publish,
                   last_analysis>>

\* POST /leave-session/{session_id}
LeaveSession(sid, name) ==
    /\ sid \in Range(active_sessions)
    /\ Room(SessionSubscribers(session_queues, sid), 1)
    /\ Room(global_queues, 1)
    /\ LET ss == [sessions EXCEPT ![sid] = RemoveParticipant(@, name, now)] IN
        /\ sessions' = ss
        /\ queues' = BroadcastGlobal(
                        BroadcastToSession(queues, session_queues, sid,
                                           ParticipantUpdate(ss[sid])),
                        global_queues, SessionsUpdate(active_sessions, ss))
    /\ UNCHANGED <<active_sessions, session_queues, global_queues, tasks, archives,
                   disk_fault, now, cleanup_task, last_publish,
                   last_analysis>>

\* DELETE /session/{session_id}: an exception of remove_session becomes a 500
ArchiveSession(sid) ==
    /\ sid \in Range(active_sessions)
    /\ LET r == RemoveSession(Registry, sessions, sid, disk_fault, now) IN
        /\ active_sessions' = r.active
        /\ session_queues' = r.sq
        /\ archives' = r.archives
        /\ queues' = r.qs
    /\ UNCHANGED <<sessions, global_queues, tasks, disk_fault, now, cleanup_task,
                   last_publish,
                   last_analysis>>

\* ------------------------------------------------------------- the sweep
\* lifespan startup: start_cleanup_task; the task's first scan runs at once
StartCleanupTask ==
    /\ cleanup_task' = CreateCleanupTask(cleanup_task, now)
    /\ UNCHANGED <<sessions, active_sessions, session_queues, global_queues, queues,
                   tasks, archives, disk_fault, now, last_publish,
                   last_analysis>>

\* one iteration of the while loop of cleanup_inactive_sessions: the scan,
\* then asyncio.sleep(CLEANUP_INTERVAL)
CleanupTick ==
    /\ cleanup_task.running
    /\ cleanup_task.alive > 0
    /\ ~cleanup_task.cancel
    /\ now >= cleanup_task.wake
    /\ LET r == CleanupScan(Registry, sessions, active_sessions, disk_fault, now) IN
        /\ active_sessions' = r.active
        /\ session_queues' = r.sq
        /\ archives' = r.archives
        /\ queues' = r.qs
    /\ cleanup_task' = [cleanup_task EXCEPT !.wake = now + CLEANUP_INTERVAL]
    /\ UNCHANGED <<sessions, global_queues, tasks, disk_fault, now, last_publish,
                   last_analysis>>

\* lifespan shutdown: stop_cleanup_task up to its await
StopCleanupTask ==
    /\ ~cleanup_task.stopping
    /\ cleanup_task' = CancelCleanupTask(cleanup_task)
    /\ UNCHANGED <<sessions, active_sessions, session_queues, global_queues, queues,
                   tasks, archives, disk_fault, now, last_publish,
                   last_analysis>>

\* the cancelled sweep task runs: CancelledError is raised at its
\* asyncio.sleep, outside the try of the loop, and the task ends
SweepCancelled ==
    /\ cleanup_task.alive > 0
    /\ cleanup_task.cancel
    /\ cleanup_task' = [cleanup_task EXCEPT !.alive = @ - 1, !.cancel = FALSE]
    /\ UNCHANGED <<sessions, active_sessions, session_queues, global_queues, queues,
                   tasks, archives, disk_fault, now, last_publish,
                   last_analysis>>

\* stop_cleanup_task from the end of its await: CancelledError is caught
\* and cleanup_task is set to None
StopReturns ==
    /\ cleanup_task.stopping
    /\ ~cleanup_task.cancel
    /\ cleanup_task' = [cleanup_task EXCEPT !.running = FALSE, !.stopping = FALSE]
    /\ UNCHANGED <<sessions, active_sessions, session_queues, global_queues, queues,
                   tasks, archives, disk_fault, now, last_publish,
                   last_analysis>>

\* ------------------------------------------------------- the environment
\* the clock is observed every half inactivity timeout
ClockStep == (INACTIVE_SESSION_TIMEOUT * 60) \div 2

\* time passes
AdvanceTime ==
    /\ now < MaxTicks * ClockStep
    /\ now' = now + ClockStep
    /\ UNCHANGED <<sessions, active_sessions, session_queues, global_queues, queues,
                   tasks, archives, disk_fault, cleanup_task, last_publish,
                   last_analysis>>

\* the archives directory starts or stops failing for one session
SetDiskFault(sid, fault) ==
    /\ sid \in Range(active_sessions)
    /\ disk_fault[sid] # fault
    /\ disk_fault' = [disk_fault EXCEPT ![sid] = fault]
    /\ UNCHANGED <<sessions, active_sessions, session_queues, global_queues, queues,
                   tasks, archives, now, cleanup_task, last_publish,
                   last_analysis>>

\* ------------------------------------------------------------- consumers
\* nothing yielded yet
NoItem == [type |-> "none"]

\* the initial state built without reading the session
InitialStateBlank(session) ==
    [type |-> "initial_state", participants |-> {}, transcripts |-> <<>>,
     argument_graph |-> [nodes |-> EmptyMap, edges |-> <<>>]]

\* the first item of a session stream, built when the generator first runs
InitialState(session) ==
    [type |-> "initial_state",
     participants |-> session.participants,
     transcripts |-> session.transcripts,
     argument_graph |-> GetGraph(session)]

\* the items the global generator yields by itself
Connected == [type |-> "connected"]
Keepalive == [type |-> "keepalive"]

\* asyncio.Queue() with the stream of its consumer: the first item yielded
\* on it and the number of idle timeouts it went through
NewQueue(topic) ==
    [topic |-> topic, items |-> <<>>, pc |-> "new", first |-> NoItem,
     timeouts |-> 0]

\* GET /session/{session_id}/events up to returning the response:
\* add_client_queue; the generator has not run yet
SessionEvents(sid) ==
    /\ sid \in Range(active_sessions)
    /\ Len(queues) < MaxQueues
    /\ LET q == Len(queues) + 1 IN
        /\ queues' = Append(queues, NewQueue(SessionTopic(sid)))
        /\ session_queues' = AddClientQueue(session_queues, sid, q)
    /\ UNCHANGED <<sessions, active_sessions, global_queues, tasks, archives,
                   disk_fault, now, cleanup_task, last_publish,
                   last_analysis>>

\* GET /events up to returning the response: add_global_queue
GlobalEvents ==
    /\ Len(queues) < MaxQueues
    /\ LET q == Len(queues) + 1 IN
        /\ queues' = Append(queues, NewQueue(GlobalTopic))
        /\ global_queues' = AddGlobalQueue(global_queues, q)
    /\ UNCHANGED <<sessions, active_sessions, session_queues, tasks, archives,
                   disk_fault, now, cleanup_task, last_publish,
                   last_analysis>>

\* event_generator up to its first queue.get: the session generator yields
\* initial_state, the global one connected and then keepalive
GeneratorStart(q) ==
    /\ q \in 1..Len(queues)
    /\ queues[q].pc = "new"
    /\ queues' = [queues EXCEPT
                     ![q].pc = "waiting",
                     ![q].first = IF queues[q].topic.kind = "session"
                                  THEN InitialState(sessions[queues[q].topic.sid])
                                  ELSE Connected]
    /\ UNCHANGED <<sessions, active_sessions, session_queues, global_queues, tasks,
                   archives, disk_fault, now, cleanup_task, last_publish,
                   last_analysis>>

\* the finally clause of an event_generator
Unsubscribe(sq, gq, q) ==
    IF queues[q].topic.kind = "session"
    THEN [sq |-> RemoveClientQueue(sq, queues[q].topic.sid, q), gq |-> gq]
    ELSE [sq |-> sq, gq |-> RemoveGlobalQueue(gq, q)]

\* message = await queue.get(): None ends the loop, anything else is yielded
QueueGet(q) ==
    /\ q \in 1..Len(queues)
    /\ queues[q].pc = "waiting"
    /\ queues[q].items # <<>>
    /\ LET message == Head(queues[q].items)
           u == Unsubscribe(session_queues, global_queues, q) IN
        IF message = CloseSentinel
        THEN /\ queues' = [queues EXCEPT ![q].items = Tail(@), ![q].pc = "closed"]
             /\ session_queues' = u.sq
             /\ global_queues' = u.gq
        ELSE /\ queues' = [queues EXCEPT ![q].items = Tail(@)]
             /\ UNCHANGED <<session_queues, global_queues>>
    /\ UNCHANGED <<sessions, active_sessions, tasks, archives, disk_fault, now,
                   cleanup_task, last_publish,
                   last_analysis>>

\* the timeout handled as the end of the stream
GlobalTimeoutEnding(q) ==
    /\ q \in 1..Len(queues)
    /\ queues[q].topic.kind = "global"
    /\ queues[q].pc = "waiting"
    /\ queues[q].items = <<>>
    /\ queues[q].timeouts < MaxTimeouts
    /\ queues' = [queues EXCEPT ![q].timeouts = @ + 1, ![q].pc = "closed"]
    /\ global_queues' = RemoveGlobalQueue(global_queues, q)
    /\ UNCHANGED <<sessions, active_sessions, session_queues, tasks, archives,
                   disk_fault, now, cleanup_task, last_publish, last_analysis>>

\* the global generator's wait_for(queue.get(), timeout=30) times out on an
\* empty queue: keepalive is yielded and the loop goes on
GlobalTimeout(q) ==
    /\ q \in 1..Len(queues)
    /\ queues[q].topic.kind = "global"
    /\ queues[q].pc = "waiting"
    /\ queues[q].items = <<>>
    /\ queues[q].timeouts < MaxTimeouts
    /\ queues' = [queues EXCEPT ![q].timeouts = @ + 1]
    /\ UNCHANGED <<sessions, active_sessions, session_queues, global_queues, tasks,
                   archives, disk_fault, now, cleanup_task, last_publish,
                   last_analysis>>

\* the client goes away: the running generator is closed and its finally runs
Disconnect(q) ==
    /\ q \in 1..Len(queues)
    /\ queues[q].pc = "waiting"
    /\ LET u == Unsubscribe(session_queues, global_queues, q) IN
        /\ session_queues' = u.sq
        /\ global_queues' = u.gq
    /\ queues' = [queues EXCEPT ![q].pc = "closed"]
    /\ UNCHANGED <<sessions, active_sessions, tasks, archives, disk_fault, now,
                   cleanup_task, last_publish,
                   last_analysis>>


\* ------------------------------------------------------- turn submission
\* turn_id = session.last_turn_id + 1
NextTurnId(session) == session.last_turn_id + 1

\* the append without the assignment to last_turn_id
AppendTurnStale(session, transcript) ==
    [session EXCEPT !.transcripts = Append(@, transcript)]

\* session.transcripts.append(transcript); session.last_turn_id = turn_id
AppendTurn(session, transcript) ==
    [session EXCEPT !.transcripts = Append(@, transcript),
                    !.last_turn_id = transcript.turn_id]

\* the handler awaiting the classification before it publishes the transcript
SendMessageAwaiting(sid, speaker, message) ==
    /\ sid \in Range(active_sessions)
    /\ sessions[sid].last_turn_id < MaxTurns
    /\ Room(SessionSubscribers(session_queues, sid), 2)
    /\ Room(global_queues, 1)
    /\ \E outcome \in ClaudeOutcomes :
        LET turn_id == NextTurnId(sessions[sid])
            transcript == [turn_id |-> turn_id, speaker |-> speaker,
                           transcript |-> message]
            a == AnalyzeMessage(AppendTurn(sessions[sid], transcript), turn_id,
                                message, speaker, outcome)
            ss == [sessions EXCEPT ![sid] = a.session] IN
        /\ sessions' = ss
        /\ last_analysis' = Analysed(Call(sid, turn_id, message, speaker, outcome), a)
        /\ queues' = BroadcastGlobal(
                        BroadcastToSession(
                            BroadcastToSession(queues, session_queues, sid,
                                               ArgumentUpdate(a.node)),
                            session_queues, sid, TranscriptEvent(transcript)),
                        global_queues, SessionsUpdate(active_sessions, ss))
    /\ UNCHANGED <<active_sessions, session_queues, global_queues, tasks, archives,
                   disk_fault, now, cleanup_task, last_publish>>

\* POST /send-message/{session_id}
SendMessage(sid, speaker, message) ==
    /\ sid \in Range(active_sessions)
    /\ sessions[sid].last_turn_id < MaxTurns
    /\ Room(SessionSubscribers(session_queues, sid), 1)
    /\ Room(global_queues, 1)
    /\ LET turn_id == NextTurnId(sessions[sid])
           transcript == [turn_id |-> turn_id, speaker |-> speaker,
                          transcript |-> message]
           ss == [sessions EXCEPT ![sid] = AppendTurn(@, transcript)] IN
        /\ sessions' = ss
        /\ queues' = BroadcastGlobal(
                        BroadcastToSession(queues, session_queues, sid,
                                           TranscriptEvent(transcript)),
                        global_queues, SessionsUpdate(active_sessions, ss))
        /\ tasks' = tasks \cup {[sid |-> sid, turn_id |-> turn_id, kind |-> "text",
                                 phase |-> "classifying", speaker |-> speaker,
                                 message |-> message]}
    /\ UNCHANGED <<active_sessions, session_queues, global_queues, archives,
                   disk_fault, now, cleanup_task, last_publish,
                   last_analysis>>

\* POST /upload-audio/{session_id} with non-empty audio
UploadAudio(sid, speaker) ==
    /\ sid \in Range(active_sessions)
    /\ sessions[sid].last_turn_id < MaxTurns
    /\ Room(SessionSubscribers(session_queues, sid), 1)
    /\ LET turn_id == NextTurnId(sessions[sid])
           transcript == [turn_id |-> turn_id, speaker |-> speaker,
                          transcript |-> Placeholder] IN
        /\ sessions' = [sessions EXCEPT ![sid] = AppendTurn(@, transcript)]
        /\ queues' = BroadcastToSession(queues, session_queues, sid,
                                        TranscriptEvent(transcript))
        /\ tasks' = tasks \cup {[sid |-> sid, turn_id |-> turn_id, kind |-> "audio",
                                 phase |-> "scheduled", speaker |-> speaker,
                                 message |-> Placeholder]}
    /\ UNCHANGED <<active_sessions, session_queues, global_queues, archives,
                   disk_fault, now, cleanup_task, last_publish,
                   last_analysis>>

\* the text written to every turn of the list instead of the matching one
UpdateTranscriptEvery(transcripts, turn_id, message) ==
    [i \in 1..Len(transcripts) |-> [transcripts[i] EXCEPT !.transcript = message]]

RECURSIVE UpdateTranscript(_, _, _)
\* for t in session.transcripts: if t["turn_id"] == turn_id: ...; break
UpdateTranscript(transcripts, turn_id, message) ==
    IF transcripts = <<>> THEN <<>>
    ELSE IF Head(transcripts).turn_id = turn_id
         THEN <<[Head(transcripts) EXCEPT !.transcript = message]>> \o Tail(transcripts)
         ELSE <<Head(transcripts)>> \o UpdateTranscript(Tail(transcripts), turn_id, message)

\* process_audio_and_update up to the await of _analyze_and_broadcast: the
\* transcriber call blocks the loop, then the turn is updated and re-published
ProcessAudio(t, message) ==
    /\ t \in tasks
    /\ t.kind = "audio"
    /\ t.phase = "scheduled"
    /\ Room(SessionSubscribers(session_queues, t.sid), 1)
    /\ LET found == \E i \in 1..Len(sessions[t.sid].transcripts) :
                        sessions[t.sid].transcripts[i].turn_id = t.turn_id
           ss == [sessions EXCEPT ![t.sid].transcripts =
                                      UpdateTranscript(@, t.turn_id, message)]
           updated == [turn_id |-> t.turn_id, speaker |-> t.speaker,
                       transcript |-> message] IN
        /\ sessions' = ss
        /\ queues' = IF found
                     THEN BroadcastToSession(queues, session_queues, t.sid,
                                             TranscriptEvent(updated))
                     ELSE queues
    /\ tasks' = IF message \in {TranscriptionFailed, EmptyTranscript}
                THEN tasks \ {t}
                ELSE (tasks \ {t}) \cup {[t EXCEPT !.phase = "classifying",
                                                   !.message = message]}
    /\ UNCHANGED <<active_sessions, session_queues, global_queues, archives,
                   disk_fault, now, cleanup_task, last_publish,
                   last_analysis>>

\* POST /session/{session_id}/analyze up to the call of the reasoning provider
AnalyzeEndpoint(sid, speaker, message) ==
    /\ sid \in Range(active_sessions)
    /\ tasks' = tasks \cup {[sid |-> sid, turn_id |-> NextTurnId(sessions[sid]),
                             kind |-> "analyze", phase |-> "classifying",
                             speaker |-> speaker, message |-> message]}
    /\ tasks' # tasks
    /\ UNCHANGED <<sessions, active_sessions, session_queues, global_queues, queues,
                   archives, disk_fault, now, cleanup_task, last_publish,
                   last_analysis>>

\* analyze_and_broadcast / _analyze_and_broadcast from the return of the
\* reasoning provider: the node is stored and the update published
AnalyzeAndBroadcast(t, outcome) ==
    /\ t \in tasks
    /\ t.phase = "classifying"
    /\ Room(SessionSubscribers(session_queues, t.sid), 1)
    /\ Len(sessions[t.sid].edges) + Len(outcome.analysis.targets) <= MaxEdges
    /\ LET a == AnalyzeMessage(sessions[t.sid], t.turn_id, t.message, t.speaker,
                               outcome) IN
        /\ sessions' = [sessions EXCEPT ![t.sid] = a.session]
        /\ queues' = IF a.raised THEN queues
                     ELSE BroadcastToSession(queues, session_queues, t.sid,
                                             ArgumentUpdate(a.node))
        /\ last_analysis' = Analysed(Call(t.sid, t.turn_id, t.message, t.speaker,
                                          outcome), a)
    /\ tasks' = tasks \ {t}
    /\ UNCHANGED <<active_sessions, session_queues, global_queues, archives,
                   disk_fault, now, cleanup_task, last_publish>>

\* ------------------------------------------------------ direct publishes
\* one call of broadcast_to_session, with the queues it put to, in order
PublishToSession(sid, data) ==
    /\ sid \in 1..MaxSessions
    /\ Room(SessionSubscribers(session_queues, sid), 1)
    /\ queues' = BroadcastToSession(queues, session_queues, sid, data)
    /\ last_publish' = [topic |-> SessionTopic(sid), data |-> data,
                        visited |-> SessionSubscribers(session_queues, sid),
                        flip |-> ~last_publish.flip]
    /\ UNCHANGED <<sessions, active_sessions, session_queues, global_queues, tasks,
                   archives, disk_fault, now, cleanup_task, last_analysis>>

\* one call of broadcast_global
PublishGlobal(data) ==
    /\ Room(global_queues, 1)
    /\ queues' = BroadcastGlobal(queues, global_queues, data)
    /\ last_publish' = [topic |-> GlobalTopic, data |-> data,
                        visited |-> global_queues, flip |-> ~last_publish.flip]
    /\ UNCHANGED <<sessions, active_sessions, session_queues, global_queues, tasks,
                   archives, disk_fault, now, cleanup_task, last_analysis>>


\* ---------------------------------------------------------------- anchors
\* POST /session/{session_id}/anchors: of the two handlers registered for
\* this path the first one, add_anchor, serves every request
PostAnchor(sid, anchor_data) ==
    /\ sid \in Range(active_sessions)
    /\ Len(sessions[sid].anchors) < MaxAnchors
    /\ Room(SessionSubscribers(session_queues, sid), 1)
    /\ LET r == AddAnchor(sessions[sid], anchor_data, now) IN
        /\ sessions' = [sessions EXCEPT ![sid] = r.session]
        /\ queues' = BroadcastToSession(queues, session_queues, sid,
                                        AnchorEvent(r.anchor))
    /\ UNCHANGED <<active_sessions, session_queues, global_queues, tasks, archives,
                   disk_fault, now, cleanup_task, last_publish, last_analysis>>

\* a call of session.remove_anchor(turn_id, position, length, user_id)
CallRemoveAnchor(sid, turn_id, position, length, user_id) ==
    /\ sid \in Range(active_sessions)
    /\ sessions' = [sessions EXCEPT ![sid].anchors =
                        RemoveAnchor(@, turn_id, position, length, user_id).anchors]
    /\ UNCHANGED <<active_sessions, session_queues, global_queues, queues, tasks,
                   archives, disk_fault, now, cleanup_task, last_publish,
                   last_analysis>>

\* ------------------------------------------------------- specifications
Sids == 1..MaxSessions
Qids == 1..MaxQueues

\* the whole server
Next ==
    \/ \E name \in Names : CreateSession(name)
    \/ \E sid \in Sids, name \in Names : JoinSession(sid, name)
    \/ \E sid \in Sids, name \in Names : LeaveSession(sid, name)
    \/ \E sid \in Sids : ArchiveSession(sid)
    \/ StartCleanupTask
    \/ StopCleanupTask
    \/ SweepCancelled
    \/ StopReturns
    \/ CleanupTick
    \/ AdvanceTime
    \/ \E sid \in Sids, fault \in {"none", "open", "move"} : SetDiskFault(sid, fault)
    \/ \E sid \in Sids : SessionEvents(sid)
    \/ GlobalEvents
    \/ \E q \in Qids : GeneratorStart(q)
    \/ \E q \in Qids : QueueGet(q)
    \/ \E q \in Qids : Disconnect(q)
    \/ \E q \in Qids : GlobalTimeout(q)
    \/ \E sid \in Sids, speaker \in Speakers, message \in Messages :
            SendMessage(sid, speaker, message)
    \/ \E sid \in Sids, speaker \in Speakers : UploadAudio(sid, speaker)
    \/ \E t \in tasks, message \in TranscriptionOutcomes : ProcessAudio(t, message)
    \/ \E sid \in Sids, speaker \in Speakers, message \in Messages :
            AnalyzeEndpoint(sid, speaker, message)
    \/ \E t \in tasks, outcome \in ClaudeOutcomes : AnalyzeAndBroadcast(t, outcome)
    \/ \E sid \in Sids, data \in PublishData : PublishToSession(sid, data)
    \/ \E data \in PublishData : PublishGlobal(data)
    \/ \E sid \in Sids, anchor_data \in AnchorInputs : PostAnchor(sid, anchor_data)
    \/ \E sid \in Sids, a \in AnchorInputs :
            CallRemoveAnchor(sid, a.turnId, a.position, a.length, a.userId)

Spec == Init /\ [][Next]_vars

\* every generator has run up to its first queue.get
Started == \A q \in 1..Len(queues) : queues[q].pc # "new"

\* turn submission, transcription and classification in one session with
\* one subscriber consuming its queue; the subscriber's generator starts as
\* soon as its response is returned
NextTurns ==
    \/ sessions = <<>> /\ CreateSession("alice")
    \/ queues = <<>> /\ SessionEvents(1)
    \/ GeneratorStart(1)
    \/ QueueGet(1)
    \/ Disconnect(1)
    \/ /\ Started
       /\ \E speaker \in Speakers, message \in Messages :
              SendMessage(1, speaker, message)
    \/ Started /\ \E speaker \in Speakers : UploadAudio(1, speaker)
    \/ /\ Started
       /\ \E t \in tasks, message \in {"spoken", TranscriptionFailed} :
              ProcessAudio(t, message)
    \/ /\ Started
       /\ \E t \in tasks, outcome \in {ApiError, PlainClaim} :
              AnalyzeAndBroadcast(t, outcome)

SpecTurns == Init /\ [][NextTurns]_vars

\* the broadcast hub: subscribing, unsubscribing, consuming and publishing,
\* and the removal of a session on request
NextHub ==
    \/ sessions = <<>> /\ CreateSession("alice")
    \/ \E sid \in Sids : ArchiveSession(sid)
    \/ \E sid \in Sids : SessionEvents(sid)
    \/ GlobalEvents
    \/ \E q \in Qids : GeneratorStart(q)
    \/ \E q \in Qids : QueueGet(q)
    \/ \E q \in Qids : Disconnect(q)
    \/ \E sid \in Sids, data \in PublishData : PublishToSession(sid, data)
    \/ \E data \in PublishData : PublishGlobal(data)

SpecHub == Init /\ [][NextHub]_vars

\* the session lifecycle: participants, time and the inactivity sweep, with an archives directory that can fail for the first session
NextSweep ==
    \/ now = 0 /\ Len(sessions) < 2 /\ CreateSession("alice")
    \/ \E sid \in Sids : JoinSession(sid, "alice")
    \/ \E sid \in Sids : LeaveSession(sid, "alice")
    \/ CleanupTick
    \/ AdvanceTime
    \/ \E fault \in {"none", "open", "move"} : SetDiskFault(1, fault)

SpecSweep == InitServing /\ [][NextSweep]_vars

\* the sweep of one session with subscribers of the global topic
NextNotify ==
    \/ sessions = <<>> /\ CreateSession("alice")
    \/ LeaveSession(1, "alice")
    \/ CleanupTick
    \/ AdvanceTime
    \/ GlobalEvents
    \/ \E q \in Qids : GeneratorStart(q)
    \/ \E q \in Qids : QueueGet(q)

SpecNotify == InitServing /\ [][NextNotify]_vars

\* one session with turns and classifications in flight, removed on request,
\* with an archives directory that can fail
NextArchive ==
    \/ sessions = <<>> /\ CreateSession("alice")
    \/ LeaveSession(1, "alice")
    \/ \E message \in Messages : SendMessage(1, "alice", message)
    \/ \E t \in tasks, outcome \in {ApiError, PlainClaim, CounterTo(<<Target(1)>>)} :
            AnalyzeAndBroadcast(t, outcome)
    \/ ArchiveSession(1)
    \/ \E fault \in {"none", "open", "move"} : SetDiskFault(1, fault)

SpecArchive == InitServing /\ [][NextArchive]_vars

\* the graph of one session: text and audio turns, /analyze requests, and
\* classifications that fail, succeed, or name targets
GraphOutcomes == {ApiError, PlainClaim, CounterTo(<<Target(1)>>)}

NextGraph ==
    \/ sessions = <<>> /\ CreateSession("alice")
    \/ \E message \in Messages : SendMessage(1, "alice", message)
    \/ UploadAudio(1, "alice")
    \/ \E t \in tasks, message \in TranscriptionOutcomes : ProcessAudio(t, message)
    \/ /\ \A t \in tasks : t.kind # "analyze"
       /\ \E message \in Messages : AnalyzeEndpoint(1, "alice", message)
    \/ \E t \in tasks, outcome \in GraphOutcomes : AnalyzeAndBroadcast(t, outcome)

SpecGraph == Init /\ [][NextGraph]_vars

\* the classifier under every outcome of the provider, on the text and audio
\* turns of one session
NextClassify ==
    \/ sessions = <<>> /\ CreateSession("alice")
    \/ \E message \in Messages : SendMessage(1, "alice", message)
    \/ UploadAudio(1, "alice")
    \/ \E t \in tasks, message \in {"spoken", TranscriptionFailed} :
            ProcessAudio(t, message)
    \/ \E t \in tasks, outcome \in ClaudeOutcomes : AnalyzeAndBroadcast(t, outcome)

SpecClassify == Init /\ [][NextClassify]_vars

\* the roster of one session: joins and leaves of present and absent names
\* over time, with one subscriber of the session topic
NextRoster ==
    \/ sessions = <<>> /\ CreateSession("alice")
    \/ queues = <<>> /\ SessionEvents(1)
    \/ GeneratorStart(1)
    \/ QueueGet(1)
    \/ \E name \in Names : JoinSession(1, name)
    \/ \E name \in Names : LeaveSession(1, name)
    \/ AdvanceTime

SpecRoster == Init /\ [][NextRoster]_vars

\* the turns of one session while time passes
NextActivity ==
    \/ sessions = <<>> /\ CreateSession("alice")
    \/ AdvanceTime
    \/ \E message \in Messages : SendMessage(1, "alice", message)
    \/ UploadAudio(1, "alice")
    \/ \E t \in tasks, message \in {"spoken", TranscriptionFailed} :
            ProcessAudio(t, message)
    \/ \E t \in tasks, outcome \in {ApiError, PlainClaim} :
            AnalyzeAndBroadcast(t, outcome)

SpecActivity == Init /\ [][NextActivity]_vars

\* the anchors of one session with at most one turn and one subscriber
NextAnchors ==
    \/ sessions = <<>> /\ CreateSession("alice")
    \/ queues = <<>> /\ SessionEvents(1)
    \/ /\ Len(sessions) >= 1 /\ sessions[1].transcripts = <<>>
       /\ \E message \in Messages : SendMessage(1, "alice", message)
    \/ \E t \in tasks : AnalyzeAndBroadcast(t, PlainClaim)
    \/ \E anchor_data \in AnchorInputs : PostAnchor(1, anchor_data)
    \/ \E a \in AnchorInputs :
            CallRemoveAnchor(1, a.turnId, a.position, a.length, a.userId)

SpecAnchors == Init /\ [][NextAnchors]_vars

\* one subscriber of a session whose roster, transcript and graph change
\* before and after its generator first runs
NextStream ==
    \/ sessions = <<>> /\ CreateSession("alice")
    \/ queues = <<>> /\ SessionEvents(1)
    \/ GeneratorStart(1)
    \/ QueueGet(1)
    \/ JoinSession(1, "bob")
    \/ \E message \in Messages : SendMessage(1, "alice", message)
    \/ \E t \in tasks, outcome \in {ApiError, PlainClaim} :
            AnalyzeAndBroadcast(t, outcome)

SpecStream == Init /\ [][NextStream]_vars

\* the subscribers of the global topic: publishes, idle timeouts, consumers
\* that read and consumers that go away
NextKeepalive ==
    \/ GlobalEvents
    \/ \E q \in Qids : GeneratorStart(q)
    \/ \E q \in Qids : QueueGet(q)
    \/ \E q \in Qids : GlobalTimeout(q)
    \/ \E q \in Qids : Disconnect(q)
    \/ \E data \in PublishData : PublishGlobal(data)

SpecKeepalive == Init /\ [][NextKeepalive]_vars

\* the lifespan of the server: the sweep task started and stopped, any
\* number of times, around one session that its participant leaves
NextLifespan ==
    \/ StartCleanupTask
    \/ StopCleanupTask
    \/ SweepCancelled
    \/ StopReturns
    \/ sessions = <<>> /\ CreateSession("alice")
    \/ LeaveSession(1, "alice")
    \/ CleanupTick
    \/ AdvanceTime

SpecLifespan == Init /\ [][NextLifespan]_vars

\* every operation on one session: turns, /analyze requests on the next
\* turn id, classifications, an anchor and the participant leaving
NextOperations ==
    \/ sessions = <<>> /\ CreateSession("alice")
    \/ \E message \in Messages : SendMessage(1, "alice", message)
    \/ /\ tasks = {}
       /\ \E message \in Messages : AnalyzeEndpoint(1, "alice", message)
    \/ \E t \in tasks, outcome \in GraphOutcomes : AnalyzeAndBroadcast(t, outcome)
    \/ PostAnchor(1, AnchorData(0, 1, "w1", 1, "alice"))
    \/ LeaveSession(1, "alice")

SpecOperations == Init /\ [][NextOperations]_vars

\* the classifier's response as a function of the turn: turn 1 is a claim,
\* every later turn a counter to turn 1
ResponseOf(turn_id) == IF turn_id = 1 THEN PlainClaim ELSE CounterTo(<<Target(1)>>)

\* turns of one session classified concurrently, each with its own fixed
\* response, completing in any order, with one subscriber
NextOrder ==
    \/ sessions = <<>> /\ CreateSession("alice")
    \/ queues = <<>> /\ SessionEvents(1)
    \/ GeneratorStart(1)
    \/ QueueGet(1)
    \/ Disconnect(1)
    \/ \E message \in Messages : SendMessage(1, "alice", message)
    \/ \E t \in tasks : AnalyzeAndBroadcast(t, ResponseOf(t.turn_id))

SpecOrder == Init /\ [][NextOrder]_vars

\* ---------------------------------------------------------------- claims
TransitionsOfSweep == cleanup_task'.wake # cleanup_task.wake

Live(sid) == sid \in Range(active_sessions)

\* the queues subscribed to a topic: created for it, their generator not
\* finished, and for a session topic the session still registered
Subscribed(topic) ==
    {q \in 1..Len(queues) :
        /\ queues[q].topic = topic
        /\ queues[q].pc # "closed"
        /\ topic.kind = "session" => Live(topic.sid)}

IsIncreasing(list) == \A i, j \in 1..Len(list) : i < j => list[i] < list[j]

TurnIdsDense ==
    \A sid \in 1..Len(sessions) :
        /\ sessions[sid].last_turn_id = Len(sessions[sid].transcripts)
        /\ \A i \in 1..Len(sessions[sid].transcripts) :
               sessions[sid].transcripts[i].turn_id = i

TurnIdsKept ==
    \A sid \in 1..Len(sessions) :
        /\ sessions'[sid].last_turn_id >= sessions[sid].last_turn_id
        /\ \A i \in 1..Len(sessions[sid].transcripts) :
               sessions'[sid].transcripts[i].turn_id = i

\* C1: after any interleaving of send_message and upload_audio the turn ids
\* of a transcript are exactly 1..N in insertion order, last_turn_id is N,
\* and last_turn_id never decreases.
C1_DenseTurnIds == []TurnIdsDense /\ [][TurnIdsKept]_vars

\* a transcript holding an audio turn followed by a text turn
C1_Witness ==
    \E sid \in 1..Len(sessions) :
        /\ sessions[sid].last_turn_id = 2
        /\ sessions[sid].transcripts[1].transcript \notin Messages
        /\ sessions[sid].transcripts[2].transcript \in Messages

\* C2: one publish on a topic puts exactly one copy of the event on each
\* queue subscribed at the time of the call, in subscription order, and on
\* no other queue; with no subscriber (or no subscriber list for the session
\* id) it changes no queue.
C2_FanOut ==
    [][last_publish' # last_publish =>
        /\ Range(last_publish'.visited) = Subscribed(last_publish'.topic)
        /\ IsIncreasing(last_publish'.visited)
        /\ \A q \in 1..Len(queues) :
              queues'[q].items =
                 IF q \in Subscribed(last_publish'.topic)
                 THEN Append(queues[q].items, last_publish'.data)
                 ELSE queues[q].items]_vars

\* a publish that reached two subscribers of a session, each holding the event
C2_Witness ==
    /\ last_publish.topic.kind = "session"
    /\ Len(last_publish.visited) = 2
    /\ \A q \in Range(last_publish.visited) :
          /\ queues[q].items # <<>>
          /\ queues[q].items[Len(queues[q].items)] = last_publish.data

\* C3 as stated: on every subscriber queue no transcript event of a turn
\* follows a transcript event of a turn with a greater id.
C3_TranscriptEventsIncreasing ==
    \A q \in 1..Len(queues) : \A i, j \in 1..Len(queues[q].items) :
        (/\ i < j
         /\ queues[q].items[i].type = "transcript"
         /\ queues[q].items[j].type = "transcript")
        => queues[q].items[i].turn_id < queues[q].items[j].turn_id

\* C3 amended: the transcript event published when a turn is appended is put
\* at the tail of every subscriber queue of the session and carries a turn
\* id greater than that of every transcript event already on the queue.
C3_AppendEventsIncreasing ==
    [][\A sid \in 1..Len(sessions) :
        sessions'[sid].last_turn_id > sessions[sid].last_turn_id =>
          \A q \in Subscribed(SessionTopic(sid)) :
            /\ Len(queues'[q].items) = Len(queues[q].items) + 1
            /\ SubSeq(queues'[q].items, 1, Len(queues[q].items)) = queues[q].items
            /\ queues'[q].items[Len(queues'[q].items)].type = "transcript"
            /\ queues'[q].items[Len(queues'[q].items)].turn_id =
                  sessions'[sid].last_turn_id
            /\ \A i \in 1..Len(queues[q].items) :
                  queues[q].items[i].type = "transcript" =>
                     queues[q].items[i].turn_id < sessions'[sid].last_turn_id]_vars

\* a queue holding the events of the appends of turn 1 and turn 2, in order
C3_Witness ==
    \E q \in 1..Len(queues) :
        /\ Len(queues[q].items) = 2
        /\ queues[q].items[1].type = "transcript"
        /\ queues[q].items[1].turn_id = 1
        /\ queues[q].items[2].type = "transcript"
        /\ queues[q].items[2].turn_id = 2
        /\ queues[q].items[2].transcript \in Messages

\* C4: send_message appends the turn and publishes its transcript event
\* before the classification of the turn starts and returns with the
\* classification still pending: the step leaves the graph untouched, puts
\* the transcript event (and no argument_update) on every subscriber queue
\* and leaves a background task for the turn; a pending task of send_message
\* is always about a turn already in the transcript.
C4_SubmitBeforeClassify ==
    /\ [](\A t \in tasks : t.kind = "text" =>
            t.turn_id <= Len(sessions[t.sid].transcripts))
    /\ [][\A sid \in 1..Len(sessions) :
            (/\ sessions'[sid].last_turn_id > sessions[sid].last_turn_id
             /\ sessions'[sid].transcripts[sessions'[sid].last_turn_id].transcript
                    \in Messages)
            => LET turn == sessions'[sid].transcripts[sessions'[sid].last_turn_id] IN
               /\ sessions'[sid].nodes = sessions[sid].nodes
               /\ sessions'[sid].edges = sessions[sid].edges
               /\ \A q \in Subscribed(SessionTopic(sid)) :
                     queues'[q].items = Append(queues[q].items, TranscriptEvent(turn))
               /\ \E t \in tasks' \ tasks :
                     /\ t.sid = sid
                     /\ t.turn_id = turn.turn_id
                     /\ t.kind = "text"
                     /\ t.phase = "classifying"]_vars

\* the transcript event of a text turn on a subscriber queue while the
\* classification of that turn is still pending
C4_Witness ==
    \E t \in tasks, q \in 1..Len(queues) :
        /\ t.kind = "text"
        /\ t.turn_id \notin DOMAIN sessions[t.sid].nodes
        /\ queues[q].topic = SessionTopic(t.sid)
        /\ \E i \in 1..Len(queues[q].items) :
              /\ queues[q].items[i].type = "transcript"
              /\ queues[q].items[i].turn_id = t.turn_id

\* C5 as stated: once a session is removed, every queue that was subscribed
\* to it and whose consumer has not finished holds the close sentinel.
C5_SentinelOnRemoval ==
    \A q \in 1..Len(queues) :
        (/\ queues[q].topic.kind = "session"
         /\ queues[q].pc # "closed"
         /\ ~Live(queues[q].topic.sid))
        => CloseSentinel \in Range(queues[q].items)

\* C6: a session leaves the live map only in a step that writes its archive
\* snapshot, equal to its transcript, graph, anchors and metadata at that
\* moment; every session constructed and no longer live has a snapshot.
C6_ArchiveBeforeEvict ==
    /\ [](\A sid \in 1..Len(sessions) : ~Live(sid) => sid \in DOMAIN archives)
    /\ [][\A sid \in 1..Len(sessions) :
            (Live(sid) /\ sid \notin Range(active_sessions')) =>
               /\ sid \in DOMAIN archives'
               /\ archives'[sid] = Snapshot(sessions[sid], now)]_vars

\* a removed session whose snapshot holds a turn and a node
C6_Witness ==
    \E sid \in 1..Len(sessions) :
        /\ ~Live(sid)
        /\ sid \in DOMAIN archives
        /\ Len(archives[sid].transcripts) >= 1
        /\ DOMAIN archives[sid].argument_graph.nodes # {}

\* C7 as stated: a sweep that removes a session puts a session_removed event
\* with its id on every queue subscribed to the global topic.
C7_SessionRemovedPublished ==
    [][\A sid \in 1..Len(sessions) :
        (TransitionsOfSweep /\ Live(sid) /\ sid \notin Range(active_sessions')) =>
           \A q \in Range(global_queues) :
              SessionRemoved(sid) \in
                 Range(SubSeq(queues'[q].items, Len(queues[q].items) + 1,
                              Len(queues'[q].items)))]_vars

\* C8 as stated: in a tick where the archive of one inactive session fails,
\* every other inactive session whose archive can be written is removed.
C8_ScanIsolatesFailure ==
    [][\A failed, sid \in Range(active_sessions) :
        (/\ TransitionsOfSweep
         /\ IsInactive(sessions[failed], now)
         /\ disk_fault[failed] # "none"
         /\ sid # failed
         /\ IsInactive(sessions[sid], now)
         /\ disk_fault[sid] = "none")
        => sid \notin Range(active_sessions')]_vars

\* C9 as stated, for a session whose own archive can be written: a tick
\* keeps a session without clients and participants at or below the
\* threshold and removes and archives it above the threshold; a removed
\* session never returns and its archive is never written again.
C9_SweptExactlyOnce ==
    [][\A sid \in 1..Len(sessions) :
        /\ (/\ TransitionsOfSweep
            /\ Live(sid)
            /\ disk_fault[sid] = "none"
            /\ sessions[sid].connected_clients = 0
            /\ sessions[sid].participants = {})
           => IF now - sessions[sid].last_activity > INACTIVE_SESSION_TIMEOUT * 60
              THEN sid \notin Range(active_sessions') /\ sid \in DOMAIN archives'
              ELSE sid \in Range(active_sessions')
        /\ ~Live(sid) =>
              /\ sid \notin Range(active_sessions')
              /\ sid \in DOMAIN archives => archives'[sid] = archives[sid]]_vars

\* C10: the sweep removes a session only if it has no connected client, no
\* participant and more than the threshold since its last activity.
C10_SweptOnlyIfInactive ==
    [][\A sid \in 1..Len(sessions) :
        (TransitionsOfSweep /\ Live(sid) /\ sid \notin Range(active_sessions')) =>
           /\ sessions[sid].connected_clients = 0
           /\ sessions[sid].participants = {}
           /\ now - sessions[sid].last_activity > INACTIVE_SESSION_TIMEOUT * 60]_vars

\* a session swept with nobody in it, while the other one, whose participant
\* set is empty but which still counts a connected client, stays live
C10_Witness ==
    \E sid, other \in 1..Len(sessions) :
        /\ ~Live(sid)
        /\ sid \in DOMAIN archives
        /\ archives[sid].metadata.participant_count = 0
        /\ Live(other)
        /\ sessions[other].participants = {}
        /\ sessions[other].connected_clients > 0
        /\ now - sessions[other].last_activity > INACTIVE_SESSION_TIMEOUT * 60
        /\ cleanup_task.wake > now

\* an answer the validation accepts: a JSON object with a numeric confidence
Answered(call) ==
    /\ call.outcome.kind = "dict"
    /\ "confidence" \in call.outcome.analysis.keys
    /\ call.outcome.analysis.confidence_numeric

BadTargets(analysis) == "targets" \in analysis.keys /\ ~analysis.targets_is_list

BadType(analysis) == "type" \notin analysis.keys \/ analysis.type \notin ArgumentTypes

\* the work still in flight for a turn of a transcript
Pending(sid, turn_id) ==
    \E t \in tasks : t.sid = sid /\ t.turn_id = turn_id /\ t.kind # "analyze"

\* C11 as stated: every turn of a transcript gets a node with its turn id;
\* once no transcription or classification is in flight for the turn, the
\* node is in the graph.
C11_EveryTurnGetsNode ==
    \A sid \in 1..Len(sessions) : \A i \in 1..Len(sessions[sid].transcripts) :
        ~Pending(sid, sessions[sid].transcripts[i].turn_id)
        => sessions[sid].transcripts[i].turn_id \in DOMAIN sessions[sid].nodes

\* the step in which the classification of task t returns
Classifies(t) == t \in tasks /\ t.phase = "classifying" /\ t \notin tasks'

\* C12: for every outcome of the provider the classification of a turn
\* returns a node and a confidence without raising, and on return the graph
\* holds that node under the turn id; a confidence below the threshold does
\* not prevent it.
C12_ClassifyNeverRaises ==
    [][\A t \in tasks :
        Classifies(t) =>
           /\ ~last_analysis'.raised
           /\ last_analysis'.call.turn_id = t.turn_id
           /\ last_analysis'.node.turn_id = t.turn_id
           /\ t.turn_id \in DOMAIN sessions'[t.sid].nodes
           /\ sessions'[t.sid].nodes[t.turn_id] = last_analysis'.node]_vars

\* an answer of confidence below the threshold returned with its node in
\* the graph, next to the fallback node of a turn whose call raised inside
\* analyze_message
C12_Witness ==
    /\ Answered(last_analysis.call)
    /\ last_analysis.confidence > 0
    /\ last_analysis.confidence < CONFIDENCE_THRESHOLD
    /\ ~last_analysis.raised
    /\ last_analysis.call.sid \in 1..Len(sessions)
    /\ LET nodes == sessions[last_analysis.call.sid].nodes IN
       /\ last_analysis.call.turn_id \in DOMAIN nodes
       /\ nodes[last_analysis.call.turn_id] = last_analysis.node
       /\ last_analysis.node.type = "support"
       /\ \E i \in DOMAIN nodes : nodes[i].summary.kind = "prefix"

\* the call failed: the request or the parsing failed inside call_claude,
\* or the try block of analyze_message raised
Failed(session, call) ==
    \/ call.outcome.kind \in {"api_error", "invalid_json"}
    \/ TryAnalyzeMessage(session, call.turn_id, call.message, call.speaker,
                         call.outcome).raised

\* C13 as stated: a classification that fails returns a node of type claim
\* with confidence 0.0 and leaves no edge whose source is the turn.
C13_FailureLeavesNoEdge ==
    [][\A t \in tasks :
        (Classifies(t) /\ Failed(sessions[t.sid], last_analysis'.call)) =>
           /\ last_analysis'.node.type = "claim"
           /\ last_analysis'.confidence = 0
           /\ \A i \in 1..Len(sessions'[t.sid].edges) :
                 sessions'[t.sid].edges[i].source_id # t.turn_id]_vars

\* C14 as stated: when the request to the provider raises, the summary of
\* the resulting node is a truncated prefix of the message of the turn.
C14_SummaryIsPrefix ==
    [][\A t \in tasks :
        (Classifies(t) /\ last_analysis'.call.outcome.kind = "api_error") =>
           /\ sessions'[t.sid].nodes[t.turn_id].summary.kind = "prefix"
           /\ sessions'[t.sid].nodes[t.turn_id].summary.of = t.message]_vars

\* the targets of an answer that name a node of the graph
Resolvable(targets, nodes) ==
    {k \in 1..Len(targets) : targets[k].hashable /\ targets[k].id \in DOMAIN nodes}

\* C15: every edge added has for target the id of a node that is in the
\* graph when the edge is created; edges are only appended; a listed target
\* without a node is dropped: the call does not fail and adds no edge for it.
C15_EdgeTargetsExist ==
    /\ [](\A sid \in 1..Len(sessions) : \A i \in 1..Len(sessions[sid].edges) :
            sessions[sid].edges[i].target_id \in DOMAIN sessions[sid].nodes)
    /\ [][\A sid \in 1..Len(sessions) :
            LET old == sessions[sid].edges
                new == sessions'[sid].edges IN
            /\ Len(new) >= Len(old)
            /\ SubSeq(new, 1, Len(old)) = old
            /\ \A i \in Len(old) + 1..Len(new) :
                  new[i].target_id \in DOMAIN sessions[sid].nodes \cup {new[i].source_id}]_vars
    /\ [][\A t \in tasks :
            LET answer == last_analysis'.call.outcome.analysis IN
            (/\ Classifies(t)
             /\ last_analysis'.call.outcome.kind = "dict"
             /\ answer.confidence_numeric
             /\ answer.targets_is_list
             /\ \A k \in 1..Len(answer.targets) : answer.targets[k].hashable)
            => /\ last_analysis'.node.type = answer.type \/ answer.type \notin ArgumentTypes
               /\ last_analysis'.node.summary = answer.summary
               /\ Len(sessions'[t.sid].edges) - Len(sessions[t.sid].edges) =
                     Cardinality(Resolvable(answer.targets, sessions'[t.sid].nodes))]_vars

\* an answer for turn 2 naming turn 1, which has a node, and turn 3, which
\* has none: accepted with its type, with the one edge to turn 1
C15_Witness ==
    /\ last_analysis.call.outcome = CounterTo(<<Target(1), Target(3)>>)
    /\ last_analysis.call.turn_id = 2
    /\ last_analysis.node.type = "counter"
    /\ last_analysis.confidence = 8500
    /\ LET session == sessions[last_analysis.call.sid] IN
       /\ 3 \notin DOMAIN session.nodes
       /\ session.nodes[2] = last_analysis.node
       /\ session.edges = <<[source_id |-> 2, target_id |-> 1, type |-> "counter"]>>

\* C16 as stated: a classification invoked again for the same turn id with
\* the same message, speaker and provider outcome as the call before it
\* leaves the nodes and the edges as the first invocation left them.
C16_ReclassifyIdempotent ==
    [][\A t \in tasks :
        (Classifies(t) /\ last_analysis'.call = last_analysis.call) =>
           /\ sessions'[t.sid].nodes = sessions[t.sid].nodes
           /\ sessions'[t.sid].edges = sessions[t.sid].edges]_vars

\* C17 as stated: every node of a graph has the turn id of a turn of the
\* transcript of its session.
C17_NodesHaveTurns ==
    \A sid \in 1..Len(sessions) : \A n \in DOMAIN sessions[sid].nodes :
        /\ n \in 1..sessions[sid].last_turn_id
        /\ \E i \in 1..Len(sessions[sid].transcripts) :
              sessions[sid].transcripts[i].turn_id = n

\* C18: for an answer whose targets value is not a list and whose type is
\* one of the four, the returned confidence is the answer's confidence
\* times 0.8, the node keeps the answer's type and the call adds no edge.
C18_NonListTargets ==
    [][\A t \in tasks :
        LET answer == last_analysis'.call.outcome.analysis IN
        (/\ Classifies(t)
         /\ Answered(last_analysis'.call)
         /\ BadTargets(answer)
         /\ ~BadType(answer))
        => /\ last_analysis'.confidence * 10 = answer.confidence * 8
           /\ last_analysis'.node.type = answer.type
           /\ sessions'[t.sid].edges = sessions[t.sid].edges]_vars

\* turn 2 classified from an answer of confidence 0.85 with a targets value
\* that is not a list: 0.68 returned, and no edge from turn 2
C18_Witness ==
    /\ Answered(last_analysis.call)
    /\ BadTargets(last_analysis.call.outcome.analysis)
    /\ last_analysis.call.outcome.analysis.confidence = 8500
    /\ last_analysis.node.type = "response"
    /\ last_analysis.confidence = 6800
    /\ last_analysis.call.turn_id = 2
    /\ LET session == sessions[last_analysis.call.sid] IN
       /\ 1 \in DOMAIN session.nodes
       /\ session.nodes[2] = last_analysis.node
       /\ \A i \in 1..Len(session.edges) : session.edges[i].source_id # 2

\* C19: for an answer whose type is missing or not one of the four, the
\* node has type claim and the confidence is multiplied by 0.8; with a
\* targets value that is not a list as well, by 0.8 twice, that is by 0.64.
C19_InvalidType ==
    [][\A t \in tasks :
        LET answer == last_analysis'.call.outcome.analysis IN
        (/\ Classifies(t)
         /\ Answered(last_analysis'.call)
         /\ BadType(answer)
         /\ \A k \in 1..Len(answer.targets) : answer.targets[k].hashable)
        => /\ last_analysis'.node.type = "claim"
           /\ sessions'[t.sid].nodes[t.turn_id].type = "claim"
           /\ IF BadTargets(answer)
              THEN last_analysis'.confidence * 100 = answer.confidence * 64
              ELSE last_analysis'.confidence * 10 = answer.confidence * 8]_vars

\* an answer of confidence 0.85 with no type and a targets value that is
\* not a list: a claim node and 0.544 returned
C19_Witness ==
    /\ Answered(last_analysis.call)
    /\ BadType(last_analysis.call.outcome.analysis)
    /\ BadTargets(last_analysis.call.outcome.analysis)
    /\ last_analysis.call.outcome.analysis.confidence = 8500
    /\ last_analysis.confidence = 5440
    /\ last_analysis.node.type = "claim"
    /\ sessions[last_analysis.call.sid].nodes[last_analysis.call.turn_id] =
          last_analysis.node

\* C20 as stated: every edge has the type of the node stored for its
\* source turn id.
C20_EdgesCarrySourceType ==
    \A sid \in 1..Len(sessions) : \A i \in 1..Len(sessions[sid].edges) :
        LET edge == sessions[sid].edges[i] IN
        /\ edge.source_id \in DOMAIN sessions[sid].nodes
        /\ edge.type = sessions[sid].nodes[edge.source_id].type


\* ------------------------------------------------------------- the roster
\* C21: a join of a name makes the participant set the old set with the
\* name added (unchanged when the name was already in it), raises the
\* connected-client count by one in both cases, and sets last_activity to
\* the time of the call.
C21_JoinAddsAndCounts ==
    [][\A sid \in Sids, name \in Names :
          JoinSession(sid, name) =>
            /\ sessions'[sid].participants = sessions[sid].participants \cup {name}
            /\ (name \in sessions[sid].participants =>
                    sessions'[sid].participants = sessions[sid].participants)
            /\ sessions'[sid].connected_clients = sessions[sid].connected_clients + 1
            /\ sessions'[sid].last_activity = now]_vars

\* a name joined twice some time after the session was created: one member,
\* counted twice
C21_Witness ==
    /\ Len(sessions) >= 1
    /\ sessions[1].participants = {"alice"}
    /\ sessions[1].connected_clients = 2
    /\ sessions[1].last_activity = now
    /\ sessions[1].last_activity > sessions[1].created_at

\* C22: a leave removes the name if it is in the set and does nothing to the
\* set otherwise, lowers the connected-client count by one but never below
\* zero, and sets last_activity to the time of the call; the count is
\* non-negative in every reachable state.
C22_LeaveRemovesAndFloors ==
    /\ [](\A sid \in 1..Len(sessions) : sessions[sid].connected_clients >= 0)
    /\ [][\A sid \in Sids, name \in Names :
             LeaveSession(sid, name) =>
               /\ sessions'[sid].participants = sessions[sid].participants \ {name}
               /\ (name \notin sessions[sid].participants =>
                       sessions'[sid].participants = sessions[sid].participants)
               /\ sessions'[sid].connected_clients =
                      (IF sessions[sid].connected_clients = 0 THEN 0
                       ELSE sessions[sid].connected_clients - 1)
               /\ sessions'[sid].last_activity = now]_vars

\* a name that never joined has left some time after the session was
\* created: the set is as it was and the count went from one to zero
C22_Witness ==
    /\ Len(sessions) >= 1
    /\ sessions[1].participants = {"alice"}
    /\ sessions[1].connected_clients = 0
    /\ sessions[1].last_activity = now
    /\ sessions[1].last_activity > sessions[1].created_at

\* C23: appending a turn refreshes the session's activity time: after every
\* step that adds a turn to a transcript, last_activity is the time of that
\* submission.
C23_TurnRefreshesActivity ==
    [][\A sid \in 1..Len(sessions) :
          Len(sessions'[sid].transcripts) > Len(sessions[sid].transcripts) =>
              sessions'[sid].last_activity = now]_vars

\* ---------------------------------------------------------------- anchors
\* C24: adding an anchor validates that the anchor's target turn id exists
\* in the session; otherwise the request is rejected and the anchor set is
\* unchanged, so every anchor of a session references an existing turn.
C24_AnchorsReferenceTurns ==
    \A sid \in 1..Len(sessions) : \A i \in 1..Len(sessions[sid].anchors) :
        \E j \in 1..Len(sessions[sid].transcripts) :
            sessions[sid].transcripts[j].turn_id = sessions[sid].anchors[i].turnId

\* the indices of the anchors a selection matches
Hits(anchors, a) ==
    {i \in 1..Len(anchors) :
        AnchorMatches(anchors[i], a.turnId, a.position, a.length, a.userId)}

FirstHit(anchors, a) ==
    CHOOSE i \in Hits(anchors, a) : \A j \in Hits(anchors, a) : i <= j

\* the list without its first match, every other anchor in its place
WithoutFirstHit(anchors, a) ==
    IF Hits(anchors, a) = {} THEN anchors
    ELSE [j \in 1..(Len(anchors) - 1) |->
            IF j < FirstHit(anchors, a) THEN anchors[j] ELSE anchors[j + 1]]

\* C25: removeAnchor(turnId, position, length, ownerId) removes exactly the
\* first anchor that matches all four fields and returns it, leaving every
\* other anchor, later duplicates included, in order; when no anchor
\* matches it reports not-found and leaves the list unchanged.
C25_RemoveFirstMatch ==
    /\ [](\A sid \in 1..Len(sessions) : \A a \in AnchorInputs :
            LET anchors == sessions[sid].anchors
                r == RemoveAnchor(anchors, a.turnId, a.position, a.length, a.userId)
            IN  /\ r.anchors = WithoutFirstHit(anchors, a)
                /\ r.result.found = (Hits(anchors, a) # {})
                /\ (Hits(anchors, a) # {} =>
                        r.result.removed = anchors[FirstHit(anchors, a)])
                /\ (Hits(anchors, a) = {} => r.anchors = anchors))
    /\ [][\A sid \in Sids, a \in AnchorInputs :
             CallRemoveAnchor(sid, a.turnId, a.position, a.length, a.userId) =>
                sessions'[sid].anchors = WithoutFirstHit(sessions[sid].anchors, a)]_vars

\* the subscriber saw an anchor and then a second one on the same selection
\* being added; the first was removed and the later duplicate is the list
C25_Witness ==
    /\ Len(sessions) >= 1 /\ Len(queues) >= 1
    /\ LET items == queues[1].items IN
        /\ Len(items) = 2
        /\ items[1].type = "anchor" /\ items[2].type = "anchor"
        /\ AnchorMatches(items[1].data, 1, 0, 1, "alice")
        /\ AnchorMatches(items[2].data, 1, 0, 1, "alice")
        /\ items[1].data.word = "w1" /\ items[2].data.word = "w2"
        /\ sessions[1].anchors = <<items[2].data>>

\* ------------------------------------------------------------------ turns
\* C26: a turn's text changes at most once, and only from the placeholder
\* to its final text when the transcription of that audio turn completes;
\* the text of a text turn never changes, and no turn's speaker or turn id
\* ever changes.
C26_TextChangesOnce ==
    [][\A sid \in 1..Len(sessions) : \A i \in 1..Len(sessions[sid].transcripts) :
          LET old == sessions[sid].transcripts[i]
              new == sessions'[sid].transcripts[i] IN
          /\ Len(sessions'[sid].transcripts) >= Len(sessions[sid].transcripts)
          /\ new.turn_id = old.turn_id
          /\ new.speaker = old.speaker
          /\ (new.transcript # old.transcript =>
                /\ old.transcript = Placeholder
                /\ new.transcript # Placeholder
                /\ \E t \in tasks :
                      /\ t.kind = "audio" /\ t.phase = "scheduled"
                      /\ t.sid = sid /\ t.turn_id = old.turn_id
                      /\ t \notin tasks')]_vars

\* a text turn with the text it was submitted with, followed by an audio
\* turn whose transcription has completed
C26_Witness ==
    /\ Len(sessions) >= 1
    /\ Len(sessions[1].transcripts) = 2
    /\ sessions[1].transcripts[1].transcript = "typed"
    /\ sessions[1].transcripts[2].transcript = "spoken"
    /\ tasks = {}

\* ---------------------------------------------------------- unsubscribing
\* a list of queues without queue q, the others in their order
Without(list, q) == SelectSeq(list, LAMBDA x : x # q)

\* the queues whose consumer finishes in this step
Closes(q) == q \in 1..Len(queues) /\ queues[q].pc # "closed" /\ queues'[q].pc = "closed"

\* C27: unsubscribing is idempotent and total: removing a queue a second
\* time, or removing it when the session's subscriber list no longer
\* exists, raises nothing and leaves every subscriber list as it is; the
\* first removal takes exactly that queue out and keeps the order of the
\* others.
C27_UnsubscribeIdempotent ==
    /\ [](\A sid \in Sids, q \in Qids :
            LET once == RemoveClientQueue(session_queues, sid, q)
                gonce == RemoveGlobalQueue(global_queues, q) IN
            /\ RemoveClientQueue(once, sid, q) = once
            /\ RemoveGlobalQueue(gonce, q) = gonce
            /\ DOMAIN once = DOMAIN session_queues
            /\ \A k \in DOMAIN session_queues :
                    once[k] = IF k = sid THEN Without(session_queues[k], q)
                              ELSE session_queues[k]
            /\ gonce = Without(global_queues, q))
    /\ [][\A q \in Qids : Closes(q) =>
             IF queues[q].topic.kind = "session"
             THEN /\ global_queues' = global_queues
                  /\ DOMAIN session_queues' = DOMAIN session_queues
                  /\ \A k \in DOMAIN session_queues :
                        session_queues'[k] =
                            IF k = queues[q].topic.sid
                            THEN Without(session_queues[k], q)
                            ELSE session_queues[k]
             ELSE /\ session_queues' = session_queues
                  /\ global_queues' = Without(global_queues, q)]_vars

\* two consumers of a session that has been removed have gone away: their
\* unsubscribing found no subscriber list for the session
C27_Witness ==
    /\ Len(queues) = 2
    /\ \A q \in 1..2 : queues[q].topic = SessionTopic(1) /\ queues[q].pc = "closed"
    /\ 1 \notin DOMAIN session_queues
    /\ 1 \notin Range(active_sessions)

\* C28: removing a session whose id is not in the live map raises nothing
\* and leaves the live map, the subscriber lists and the archives as they
\* are.
C28_RemoveAbsentSession ==
    \A sid \in Sids :
        sid \notin Range(active_sessions) =>
            LET r == RemoveSession(Registry, sessions, sid, disk_fault, now) IN
            /\ ~r.raised
            /\ r.active = active_sessions
            /\ r.sq = session_queues
            /\ r.archives = archives
            /\ r.qs = queues

\* an archived session and an id never issued, neither in the live map,
\* while a subscriber of the global topic is registered
C28_Witness ==
    /\ active_sessions = <<>>
    /\ 1 \in DOMAIN archives
    /\ Len(sessions) = 1
    /\ Len(global_queues) >= 1

\* ---------------------------------------------------------------- streams
\* C29: a subscriber of a session topic receives initial_state exactly once
\* and as the first item of its stream, before any event taken from its
\* queue, and it holds the session's participants, transcript and graph as
\* they are when it is produced.
C29_InitialStateFirst ==
    [][\A q \in 1..Len(queues) :
          queues[q].topic.kind = "session" =>
            LET session == sessions[queues[q].topic.sid] IN
            /\ (queues[q].pc = "new" => queues[q].first = NoItem)
            /\ (queues[q].pc = "new" /\ queues'[q].pc # "new" =>
                  /\ queues'[q].first.type = "initial_state"
                  /\ queues'[q].first.participants = session.participants
                  /\ queues'[q].first.transcripts = session.transcripts
                  /\ queues'[q].first.argument_graph.nodes = session.nodes
                  /\ queues'[q].first.argument_graph.edges = session.edges
                  /\ queues'[q].items = queues[q].items)
            /\ (queues[q].pc # "new" => queues'[q].first = queues[q].first)
            /\ (Len(queues'[q].items) < Len(queues[q].items) =>
                  /\ queues[q].first.type = "initial_state"
                  /\ Head(queues[q].items).type # "initial_state")]_vars

\* the generator first ran after a second participant, a turn and its node
\* were in the session, with the turn's event already waiting on the queue
C29_Witness ==
    /\ Len(queues) >= 1
    /\ queues[1].pc = "waiting"
    /\ queues[1].first.type = "initial_state"
    /\ queues[1].first.participants = {"alice", "bob"}
    /\ Len(queues[1].first.transcripts) = 1
    /\ 1 \in DOMAIN queues[1].first.argument_graph.nodes
    /\ Len(queues[1].items) >= 1
    /\ queues[1].items[1].type = "transcript"

\* C30: on the global topic an idle timeout only emits a keepalive: it never
\* ends the subscriber's stream and never unsubscribes its queue, so the
\* queue stays registered until the consumer itself stops or a close
\* sentinel is received.
C30_TimeoutKeepsStream ==
    [][\A q \in 1..Len(queues) :
          queues[q].topic.kind = "global" =>
            /\ (queues'[q].timeouts > queues[q].timeouts =>
                  /\ queues[q].pc = "waiting"
                  /\ queues'[q].pc = "waiting"
                  /\ global_queues' = global_queues
                  /\ q \in Range(global_queues')
                  /\ queues'[q].items = queues[q].items)
            /\ (q \in Range(global_queues) /\ q \notin Range(global_queues') =>
                  /\ queues'[q].pc = "closed"
                  /\ queues'[q].timeouts = queues[q].timeouts
                  /\ \/ queues'[q].items = queues[q].items
                     \/ /\ queues[q].items # <<>>
                        /\ Head(queues[q].items) = CloseSentinel)]_vars

\* a subscriber of the global topic that went through an idle timeout is
\* still registered and waiting, and an event published afterwards is on
\* its queue
C30_Witness ==
    /\ Len(queues) >= 1
    /\ queues[1].topic.kind = "global"
    /\ queues[1].timeouts >= 1
    /\ queues[1].pc = "waiting"
    /\ 1 \in Range(global_queues)
    /\ queues[1].items # <<>>

\* --------------------------------------------------------- the sweep task
\* C31: the sweep supports graceful cancellation: at most one sweep task
\* exists at any time (a second start while one runs changes nothing), a
\* stop cancels the task and returns with no task left, after a stop no
\* session is removed by a sweep until the task is started again, and a
\* stop without a running task changes nothing.
C31_GracefulCancellation ==
    /\ [](/\ cleanup_task.alive <= 1
          /\ (cleanup_task.running =>
                CreateCleanupTask(cleanup_task, now) = cleanup_task)
          /\ (~cleanup_task.running =>
                /\ CancelCleanupTask(cleanup_task) = cleanup_task
                /\ cleanup_task.alive = 0))
    /\ [][/\ (cleanup_task.stopping /\ ~cleanup_task'.stopping =>
                /\ ~cleanup_task'.running
                /\ cleanup_task'.alive = 0)
          /\ (Len(active_sessions') < Len(active_sessions) =>
                /\ cleanup_task.running
                /\ cleanup_task.alive = 1
                /\ ~cleanup_task.cancel)]_vars

\* the task ran and was stopped; a session that has since become inactive
\* is still live with the clock past the task's last wake-up time
C31_Witness ==
    /\ ~cleanup_task.running
    /\ cleanup_task.alive = 0
    /\ cleanup_task.wake > 0
    /\ now > cleanup_task.wake
    /\ active_sessions = <<1>>
    /\ IsInactive(sessions[1], now)

\* ------------------------------------------------------------ session data
\* C32: get_session_data(id) returns the complete session data for every
\* known session id, live or archived, and returns nothing only for an id
\* that is neither.
C32_SessionDataForKnownIds ==
    \A sid \in Sids :
        LET r == GetSessionData(active_sessions, sessions, sid) IN
        /\ ~r.raised
        /\ (r.data # NoData) <=>
                (sid \in Range(active_sessions) \/ sid \in DOMAIN archives)

\* ------------------------------------------------- the graph after removal
\* C33: outstanding classifications are not leaked across session removal:
\* once a session has been removed, no classification of one of its turns
\* adds a node or an edge to its graph, so the graph in the archived
\* snapshot is the final graph of the session.
C33_SnapshotGraphIsFinal ==
    \A sid \in 1..Len(sessions) :
        (sid \notin Range(active_sessions) /\ sid \in DOMAIN archives) =>
            archives[sid].argument_graph = GetGraph(sessions[sid])

\* --------------------------------------------------------- graph structure
\* C34: edges and nodes are append-only: no operation on a session
\* (classification, re-classification of a turn id, fallback, anchor or
\* participant operations) removes or changes an edge already in the edge
\* list or removes a node; the edge list only grows at its end.
C34_GraphAppendOnly ==
    [][\A sid \in 1..Len(sessions) :
          /\ DOMAIN sessions[sid].nodes \subseteq DOMAIN sessions'[sid].nodes
          /\ Len(sessions'[sid].edges) >= Len(sessions[sid].edges)
          /\ SubSeq(sessions'[sid].edges, 1, Len(sessions[sid].edges))
                = sessions[sid].edges]_vars

\* turn 2 was classified twice, first as a counter to turn 1 and then as a
\* plain claim: the edge of the first classification is still the first edge
C34_Witness ==
    /\ Len(sessions) >= 1
    /\ 2 \in DOMAIN sessions[1].nodes
    /\ sessions[1].nodes[2].type = "claim"
    /\ Len(sessions[1].edges) >= 1
    /\ sessions[1].edges[1] = [source_id |-> 2, target_id |-> 1, type |-> "counter"]

\* C35: no edge of a session's graph is a self-loop or a forward reference:
\* the target turn id of every edge is strictly smaller than its source
\* turn id, even when the classifier's response lists the turn's own id
\* among its targets.
C35_EdgesPointBackwards ==
    \A sid \in 1..Len(sessions) : \A i \in 1..Len(sessions[sid].edges) :
        sessions[sid].edges[i].target_id < sessions[sid].edges[i].source_id

RECURSIVE ClassifiedInOrder(_, _)
\* the session with an empty graph after its first k turns have been
\* classified one after the other in turn order
ClassifiedInOrder(session, k) ==
    IF k = 0 THEN [session EXCEPT !.nodes = EmptyMap, !.edges = <<>>]
    ELSE LET t == session.transcripts[k] IN
         AnalyzeMessage(ClassifiedInOrder(session, k - 1), t.turn_id, t.transcript,
                        t.speaker, ResponseOf(t.turn_id)).session

\* C36: when several turns of a session are classified concurrently, the
\* graph reached once all classifications have completed is the same for
\* every order of completion, and so equals the graph reached when they
\* complete in turn order.
C36_OrderIndependentGraph ==
    \A sid \in 1..Len(sessions) :
        tasks = {} =>
            LET ordered == ClassifiedInOrder(sessions[sid],
                                             Len(sessions[sid].transcripts)) IN
            /\ sessions[sid].nodes = ordered.nodes
            /\ Range(sessions[sid].edges) = Range(ordered.edges)

\* ------------------------------------------- subscribing while turns arrive
TurnIds(transcripts) == {transcripts[i].turn_id : i \in 1..Len(transcripts)}

\* a transcript event of turn k is among the items
HoldsTurn(items, k) ==
    \E i \in 1..Len(items) : items[i].type = "transcript" /\ items[i].turn_id = k

\* C37: no turn is lost to a subscriber across the subscribe/initial-state
\* boundary.  A consumer of a live session stays subscribed; a turn appended
\* once its initial_state has been produced is put on its queue as a
\* transcript event; its initial_state holds every turn appended before
\* it is produced; and an item leaves its queue only by being taken by the
\* consumer.  So every turn is in the initial_state or arrives on the queue.
C37_NoTurnLost ==
    /\ [](\A q \in 1..Len(queues) :
            (/\ queues[q].topic.kind = "session"
             /\ queues[q].pc # "closed"
             /\ queues[q].topic.sid \in Range(active_sessions)) =>
                q \in Range(SessionSubscribers(session_queues, queues[q].topic.sid)))
    /\ [][\A q \in 1..Len(queues) :
             (queues[q].topic.kind = "session" /\ queues[q].pc # "closed") =>
                LET sid == queues[q].topic.sid
                    old == TurnIds(sessions[sid].transcripts)
                    new == TurnIds(sessions'[sid].transcripts) IN
                /\ old \subseteq new
                /\ \A k \in new \ old :
                      queues[q].pc = "new" \/ HoldsTurn(queues'[q].items, k)
                /\ (queues[q].pc = "new" /\ queues'[q].pc # "new" =>
                      old \subseteq TurnIds(queues'[q].first.transcripts))
                /\ \/ /\ Len(queues'[q].items) >= Len(queues[q].items)
                      /\ SubSeq(queues'[q].items, 1, Len(queues[q].items))
                            = queues[q].items
                   \/ /\ queues[q].pc = "waiting"
                      /\ queues[q].items # <<>>
                      /\ queues'[q].items = Tail(queues[q].items)]_vars

\* the consumer's initial_state held turn 1 only; turn 2, appended
\* afterwards, is on its queue as a transcript event
C37_Witness ==
    /\ Len(queues) >= 1 /\ Len(sessions) >= 1
    /\ queues[1].pc = "waiting"
    /\ TurnIds(queues[1].first.transcripts) = {1}
    /\ TurnIds(sessions[1].transcripts) = {1, 2}
    /\ HoldsTurn(queues[1].items, 2)
    /\ ~HoldsTurn(queues[1].items, 1)

\* ------------------------------------------------ eviction of empty sessions
\* participants join and leave while the clock stands at 0 and nothing is
\* called afterwards; the sweep task, once started, runs a scan whenever its
\* sleep is over, and time passes
NextEviction ==
    \/ now = 0 /\ CreateSession("alice")
    \/ \E sid \in Sids : now = 0 /\ JoinSession(sid, "alice")
    \/ \E sid \in Sids : now = 0 /\ LeaveSession(sid, "alice")
    \/ CleanupTick
    \/ AdvanceTime

SpecEviction ==
    InitServing /\ [][NextEviction]_vars /\ WF_vars(CleanupTick) /\ WF_vars(AdvanceTime)

NextRetry ==
    \/ sessions = <<>> /\ CreateSession("alice")
    \/ SessionEvents(1)
    \/ LeaveSession(1, "alice")
    \/ ArchiveSession(1)
    \/ \E fault \in {"none", "open", "move"} : SetDiskFault(1, fault)
    \/ CleanupTick
    \/ AdvanceTime

SpecRetry == InitServing /\ [][NextRetry]_vars

\* a removal of sid failed earlier after writing the snapshot: the session
\* is live and has an archive file
FailedRemoval(sid) ==
    /\ sid \in Range(active_sessions)
    /\ sid \in DOMAIN archives

\* C39, the registry: a removal whose archive fails leaves the session in the
\* live map and its subscriber list registered with the same queues in the
\* same order.
C39_RegistryKept ==
    [][\A sid \in Sids :
         (/\ sid \in Range(active_sessions)
          /\ disk_fault[sid] # "none"
          /\ ArchiveSession(sid) \/ CleanupTick) =>
            /\ active_sessions' = active_sessions
            /\ sid \in DOMAIN session_queues'
            /\ session_queues'[sid] = session_queues[sid]
            /\ sessions'[sid] = sessions[sid]]_vars

\* C39: a removal whose archive fails has no effect on the registry, and the
\* next sweep tick calls remove_session for the session again: with the
\* directory working the tick removes it, and with the recordings still
\* failing to move the tick writes the snapshot anew.
C39_FailedRemovalRetried ==
    /\ C39_RegistryKept
    /\ [][\A sid \in Sids :
            (FailedRemoval(sid) /\ CleanupTick) =>
               /\ disk_fault[sid] = "none" => sid \notin Range(active_sessions')
               /\ disk_fault[sid] = "move" =>
                     archives'[sid].metadata.archived_at = now]_vars

\* ------------------------------------------------------ isolation of topics
\* two sessions and the global topic, with subscribers arriving and the first
\* of them disconnecting, sessions removed on request, and publishes on
\* every topic
NextTopics ==
    \/ Len(sessions) < 2 /\ CreateSession("alice")
    \/ \E sid \in Sids : ArchiveSession(sid)
    \/ \E sid \in Sids : SessionEvents(sid)
    \/ GlobalEvents
    \/ GeneratorStart(1)
    \/ Disconnect(1)
    \/ \E sid \in Sids, data \in PublishData : PublishToSession(sid, data)
    \/ \E data \in PublishData : PublishGlobal(data)

SpecTopics == Init /\ [][NextTopics]_vars

\* C40: topics are isolated.  A publish on the topic of a session changes
\* only queues subscribed to that session, a publish on the global topic
\* changes only queues subscribed to the global topic, and every live
\* session id has a subscriber list.
C40_TopicsIsolated ==
    /\ [](Range(active_sessions) \subseteq DOMAIN session_queues)
    /\ [][\A sid \in Sids, data \in PublishData :
            PublishToSession(sid, data) =>
                /\ Len(queues') = Len(queues)
                /\ \A q \in 1..Len(queues) :
                      queues'[q] # queues[q] =>
                         /\ q \in Range(SessionSubscribers(session_queues, sid))
                         /\ queues[q].topic = SessionTopic(sid)
                         /\ q \notin Range(global_queues)]_vars
    /\ [][\A item \in PublishData :
            PublishGlobal(item) =>
                /\ Len(queues') = Len(queues)
                /\ \A q \in 1..Len(queues) :
                      queues'[q] # queues[q] =>
                         /\ q \in Range(global_queues)
                         /\ queues[q].topic = GlobalTopic
                         /\ \A sid \in DOMAIN session_queues :
                               q \notin Range(session_queues[sid])]_vars

\* the last publish was on the topic of session 1: the queue subscribed to
\* session 1 holds the event and the queue subscribed to the live session 2
\* holds nothing
C40_Witness ==
    /\ Len(queues) = 2
    /\ active_sessions = <<1, 2>>
    /\ last_publish.topic = SessionTopic(1)
    /\ session_queues[1] = <<1>> /\ session_queues[2] = <<2>>
    /\ queues[1].items # <<>>
    /\ queues[2].items = <<>>

====
